---- MODULE Spec2Model ----
(***************************************************************************)
(* Model of the InfluxDB client of influx/__init__.py: the request         *)
(* orchestrator (_make_request, _safe_request, create_database,            *)
(* _check_and_raise) and the write operations built on it.                 *)
(*                                                                         *)
(* JSON values are tagged records [t |-> type, v |-> value]; a JSON object *)
(* is a TLA+ record, a JSON list a sequence, a JSON string a sequence of   *)
(* one-character strings.  A body that is not JSON at all has t="invalid". *)
(* Text that is only formatted into requests (urls, queries) is a TLA+     *)
(* string.                                                                 *)
(***************************************************************************)
EXTENDS Integers, Sequences, FiniteSets, TLC

VARIABLES url, timeout, precision, jsonErrorIsRequestException,
          callers, pc, op, kwargs, calls, replies, resp, db_resp, result,
          outcome,
          args, ret

vars == <<url, timeout, precision, jsonErrorIsRequestException,
          callers, pc, op, kwargs, calls, replies, resp, db_resp, result,
          outcome, args, ret>>

\* The call of a function that needs no client (the line protocol encoder,
\* unpack) and what it returned or raised.
pure == <<args, ret>>

client == <<url, timeout, precision>>

\* ------------------------------------------------------------------ bounds
\* Longest `results` list the server sends in a response body.
MaxStatements == 2

\* Longest list of statements or of series in a result given to unpack.
MaxEntries == 2

\* Longest string given to the escaping functions.
MaxLen == 3

\* Most positional arguments given to select_into.
MaxPositional == 4

\* Most points in a batch given to make_lines, and most rows of values given
\* to _make_many_lines.
MaxPoints == 2

\* ------------------------------------------------------------ JSON values
JStr(s) == [t |-> "str", v |-> s]
JNum(n) == [t |-> "num", v |-> n]
JList(s) == [t |-> "list", v |-> s]
JDict(d) == [t |-> "dict", v |-> d]
JNull == [t |-> "null"]
Invalid == [t |-> "invalid"]
EmptyDict == JDict(<<>>)

None == [t |-> "None"]

\* str.startswith
StartsWith(s, prefix) ==
    /\ Len(s) >= Len(prefix)
    /\ SubSeq(s, 1, Len(prefix)) = prefix

\* substring test of `x in s` for two strings
Contains(s, sub) ==
    \E i \in 0..(Len(s) - Len(sub)) : SubSeq(s, i + 1, i + Len(sub)) = sub

\* The characters of the two keys the client looks up.
Chars(key) ==
    CASE key = "error" -> <<"e", "r", "r", "o", "r">>
      [] key = "results" -> <<"r", "e", "s", "u", "l", "t", "s">>

\* Python's `key in obj` for a str key: "T", "F" or the exception raised
\* (key lookup in a dict, membership in a list, substring of a str).
PyIn(key, obj) ==
    CASE obj.t = "dict" -> IF key \in DOMAIN obj.v THEN "T" ELSE "F"
      [] obj.t = "list" ->
            IF \E i \in 1..Len(obj.v) :
                  obj.v[i].t = "str" /\ obj.v[i].v = Chars(key)
            THEN "T" ELSE "F"
      [] obj.t = "str" -> IF Contains(obj.v, Chars(key)) THEN "T" ELSE "F"
      [] OTHER -> "TypeError"

\* Python's len(obj); -1 stands for the TypeError of an unsized object.
PyLen(obj) ==
    CASE obj.t = "dict" -> Cardinality(DOMAIN obj.v)
      [] obj.t \in {"list", "str"} -> Len(obj.v)
      [] OTHER -> -1

\* Python truthiness of a decoded JSON value (or None).
Truthy(x) ==
    CASE x.t = "str" -> Len(x.v) > 0
      [] x.t = "list" -> Len(x.v) > 0
      [] x.t = "dict" -> DOMAIN x.v # {}
      [] x.t = "num" -> x.v # 0
      [] OTHER -> FALSE

\* ------------------------------------------------------- request templates
Lit(s) == [k |-> "lit", s |-> s]
Field(s) == [k |-> "field", s |-> s]

IQL_WRITE ==
    [method |-> "POST",
     path |-> <<Lit("write?db="), Field("database"),
                Lit("&precision="), Field("precision")>>,
     params |-> <<>>,
     data |-> <<Field("lines")>>]

IQL_CREATE_DATABASE ==
    [method |-> "POST",
     path |-> <<Lit("query")>>,
     params |-> [q |-> <<Lit("CREATE DATABASE \""), Field("database"),
                         Lit("\"")>>],
     data |-> <<>>]

IQL_SELECT ==
    [method |-> "GET",
     path |-> <<Lit("query")>>,
     params |-> [db |-> <<Field("database")>>,
                 epoch |-> <<Field("precision")>>,
                 q |-> <<Lit("SELECT "), Field("fields"), Lit(" FROM "),
                         Field("measurement"), Lit(" WHERE "),
                         Field("where")>>],
     data |-> <<>>]

IQL_SELECT_INTO ==
    [method |-> "POST",
     path |-> <<Lit("query")>>,
     params |-> [db |-> <<Field("database")>>,
                 q |-> <<Lit("SELECT "), Field("fields"), Lit(" INTO "),
                         Field("target"), Lit(" FROM "), Field("source"),
                         Lit(" "), Field("where"), Lit(" "),
                         Field("group_by")>>],
     data |-> <<>>]

Template(name) ==
    CASE name = "IQL_SELECT_INTO" -> IQL_SELECT_INTO
      [] name = "IQL_WRITE" -> IQL_WRITE
      [] name = "IQL_CREATE_DATABASE" -> IQL_CREATE_DATABASE
      [] name = "IQL_SELECT" -> IQL_SELECT

\* str.format(**fields) of one template string
RECURSIVE Format(_, _)
Format(tmpl, fields) ==
    IF tmpl = <<>> THEN ""
    ELSE LET p == Head(tmpl)
         IN (IF p.k = "lit" THEN p.s ELSE fields[p.s])
                \o Format(Tail(tmpl), fields)

\* _format_any for the two shapes the templates use: '' and a flat dict
FormatAny(obj, fields) ==
    IF obj = <<>> THEN ""
    ELSE [key \in DOMAIN obj |-> Format(obj[key], fields)]

FormatData(obj, fields) ==
    IF obj = <<>> THEN "" ELSE Format(obj, fields)

\* urljoin of a base url without a path and a relative path
UrlJoin(base, path) == base \o "/" \o path

\* The arguments _make_request hands to session.request.
MakeRequest(influxql, fields) ==
    LET all == [key \in (DOMAIN fields) \cup {"precision"} |->
                   IF key = "precision" THEN precision ELSE fields[key]]
        tmpl == Template(influxql)
    IN [influxql |-> influxql,
        method |-> tmpl.method,
        url |-> UrlJoin(url, Format(tmpl.path, all)),
        params |-> FormatAny(tmpl.params, all),
        data |-> FormatData(tmpl.data, all),
        timeout |-> timeout]

\* ------------------------------------------------------------- exceptions
Exc(type) == [type |-> type]

HTTPError(msg, response) ==
    [type |-> "HTTPError", msg |-> msg, response |-> response]

\* Raised by session.request itself: connection failure or timeout.
TransportErrors == {Exc("ConnectionError"), Exc("Timeout")}

\* requests.exceptions.RequestException and its subclasses.  The error of
\* Response.json() belongs to them in requests >= 2.27 only.
IsRequestException(e) ==
    \/ e.type \in {"ConnectionError", "Timeout", "HTTPError"}
    \/ e.type = "JSONDecodeError" /\ jsonErrorIsRequestException

Return(value) == [kind |-> "return", value |-> value]
Raise(exc) == [kind |-> "raise", exc |-> exc]

\* -------------------------------------------------------- server responses
\* Text of error messages, as characters.
DatabaseNotFound ==
    <<"d", "a", "t", "a", "b", "a", "s", "e", " ",
      "n", "o", "t", " ", "f", "o", "u", "n", "d">>
OtherError == <<"t", "i", "m", "e", "o", "u", "t">>

CreatedBody ==
    JDict([results |-> JList(<<JDict([statement_id |-> JNum(0)])>>)])

\* Response bodies: not JSON, JSON that is not an object, and objects.
\* Statements are the entries of a `results` list.
Bodies ==
    LET DatabaseNotFoundNamed == DatabaseNotFound \o <<":", " ", "d", "b">>
        DatabaseNot == SubSeq(DatabaseNotFound, 1, 12)
        Statements ==
            { JDict([statement_id |-> JNum(0)]),
              JDict([statement_id |-> JNum(1)]),
              JDict([error |-> JStr(DatabaseNotFound)]),
              JDict([statement_id |-> JNum(0),
                     error |-> JStr(DatabaseNotFound)]),
              JDict([error |-> JStr(DatabaseNotFoundNamed)]),
              JDict([error |-> JStr(DatabaseNot)]),
              JDict([error |-> JStr(OtherError)]),
              JDict([error |-> JNum(7)]),
              JNum(5) }
        ResultsLists ==
            {<<>>} \cup
            UNION { { [i \in 1..n |-> e] : e \in Statements } :
                    n \in 1..MaxStatements }
    IN  { Invalid, JNull, JList(<<>>),
          JStr(<<"2", "0", "0", " ", "O", "K">>),
          EmptyDict,
          JDict([error |-> JStr(DatabaseNotFound)]),
          JDict([error |-> JStr(OtherError)]),
          JDict([error |-> JStr(<<>>)]),
          JDict([error |-> JStr(OtherError),
                 results |->
                     JList(<<JDict([error |-> JStr(DatabaseNotFound)])>>)]),
          JDict([results |-> JList(<<JDict([statement_id |-> JNum(0)])>>),
                 warning |-> JStr(OtherError)]),
          JDict([results |-> JNull]) }
        \cup { JDict([results |-> JList(l)]) : l \in ResultsLists }

\* What the server may answer to the n-th HTTP call of a caller.  A reason
\* phrase is a str, or bytes (UTF-8 or ISO-8859-1 encoded); it is read for
\* error statuses only, so the others carry one.  With several callers the
\* answers are those that decide the path through _safe_request: found or
\* missing, created or not, and a body that is not JSON.
Responses(n, request) ==
    LET Reasons ==
            { [t |-> "str", v |-> <<"N", "o">>],
              [t |-> "bytes", v |-> <<78, 195, 169>>],
              [t |-> "bytes", v |-> <<78, 233>>] }
        Statuses ==
            IF Cardinality(callers) > 1 THEN {200, 404}
            ELSE {200, 204, 400, 404}
    IN  UNION { { [call |-> n, status_code |-> s, reason |-> r,
                   url |-> request.url, body |-> b] :
                     b \in IF Cardinality(callers) > 1
                           THEN { Invalid, EmptyDict, CreatedBody,
                                  JDict([error |-> JStr(DatabaseNotFound)]) }
                           ELSE Bodies,
                     r \in { x \in Reasons :
                                \/ x.t = "str"
                                \/ s >= 400 /\ Cardinality(callers) = 1 } } :
                s \in Statuses }

\* bytes.decode('utf-8') for one- and two-byte sequences; <<-1>> stands for
\* UnicodeDecodeError.
RECURSIVE Utf8Decode(_)
Utf8Decode(bytes) ==
    IF bytes = <<>> THEN <<>>
    ELSE LET b == Head(bytes)
         IN IF b < 128
            THEN LET rest == Utf8Decode(Tail(bytes))
                 IN IF rest = <<-1>> THEN rest ELSE <<b>> \o rest
            ELSE IF /\ b >= 194 /\ b < 224 /\ Len(bytes) >= 2
                    /\ bytes[2] >= 128 /\ bytes[2] < 192
            THEN LET rest == Utf8Decode(Tail(Tail(bytes)))
                 IN IF rest = <<-1>> THEN rest
                    ELSE <<(b - 192) * 64 + (bytes[2] - 128)>> \o rest
            ELSE <<-1>>

\* The text of code points, for the code points of the reasons.
Text(cps) ==
    [i \in 1..Len(cps) |->
        CASE cps[i] = 78 -> "N"
          [] cps[i] = 111 -> "o"
          [] cps[i] = 233 -> "\\xe9"]

\* The reason decoded as UTF-8 or, failing that, as ISO-8859-1, where every
\* byte is its own code point.
DecodeReason(reason) ==
    IF reason.t = "bytes"
    THEN IF Utf8Decode(reason.v) # <<-1>> THEN Text(Utf8Decode(reason.v))
         ELSE Text(reason.v)
    ELSE reason.v

\* ------------------------------------------------------- _check_and_raise
\* "{} {} for {}".format(status_code, reason, url)
HttpErrorMsg(status_code, reason, u) ==
    <<status_code, " ", reason, " for ", u>>

IsError(response) == response.status_code >= 400

\* msg.get('error', (msg.get('results', []) + [{}]).pop().get('error', None))
\* The default is computed first; pop() takes the last item of the
\* concatenation, which is the appended {}.
ErrorOf(msg) ==
    IF msg.t # "dict" THEN Raise(Exc("AttributeError"))
    ELSE LET results == IF "results" \in DOMAIN msg.v THEN msg.v.results
                        ELSE JList(<<>>)
         IN IF results.t # "list" THEN Raise(Exc("TypeError"))
            ELSE LET both == results.v \o <<EmptyDict>>
                     last == both[Len(both)]
                     default == IF "error" \in DOMAIN last.v
                                THEN last.v.error ELSE None
                 IN Return(IF "error" \in DOMAIN msg.v THEN msg.v.error
                           ELSE default)

\* Return(None) when nothing is raised, Raise(e) otherwise.
CheckAndRaise(response) ==
    IF ~IsError(response) THEN Return(None)
    ELSE LET reason == DecodeReason(response.reason)
             msg == IF response.body = Invalid THEN Return(None)
                    ELSE ErrorOf(response.body)
         IN IF msg.kind = "raise" THEN msg
            ELSE Raise(HTTPError(
                    HttpErrorMsg(response.status_code,
                                 IF Truthy(msg.value) THEN msg.value.v
                                 ELSE reason,
                                 response.url),
                    response))

\* ---------------------------------------------------------- _safe_request
\* obj[0] of a sized object of length 1.
First(obj) ==
    CASE obj.t = "list" -> Return(obj.v[1])
      [] obj.t = "str" -> Return(JStr(<<obj.v[1]>>))
      [] OTHER -> Raise(Exc("KeyError"))

\* obj['error'] once `'error' in obj` is known to be true.
GetError(obj) ==
    IF obj.t = "dict" THEN Return(obj.v.error) ELSE Raise(Exc("TypeError"))

Create == [kind |-> "create"]

HasDatabaseAlways(database) == TRUE

\* `if not database` fails: a database name was supplied.
HasDatabase(database) == database # ""

IsMissingStatus200(response) == response.status_code = 200

\* Database missing errors can be 200s or 404s.
IsMissingStatus(response) ==
    ~(response.status_code # 200 /\ response.status_code # 404)

NotOneStatementEmpty(n) == n < 1

\* len(statements) != 1
NotOneStatement(n) == n # 1

\* The `results` branch of _safe_request.
InspectResults(data, response) ==
    IF data.t # "dict" THEN Raise(Exc("AttributeError"))
    ELSE LET statements == data.v.results
         IN IF PyLen(statements) = -1 THEN Raise(Exc("TypeError"))
            ELSE IF NotOneStatement(PyLen(statements)) THEN Return(response)
            ELSE IF First(statements).kind = "raise" THEN First(statements)
            ELSE LET first == First(statements).value
                 IN IF PyIn("error", first) = "TypeError"
                    THEN Raise(Exc("TypeError"))
                    ELSE IF PyIn("error", first) = "F" THEN Return(response)
                    ELSE IF GetError(first).kind = "raise" THEN GetError(first)
                    ELSE LET error == GetError(first).value
                         IN IF error.t # "str"
                            THEN Raise(Exc("AttributeError"))
                            ELSE IF ~StartsWith(error.v, DatabaseNotFound)
                            THEN Return(response)
                            ELSE Create

\* What _safe_request does with the first response: Return(response),
\* Raise(e), or Create when it goes on to create the database.
Inspect(response, database) ==
    IF ~HasDatabase(database) THEN Return(response)
    ELSE IF ~IsMissingStatus(response) THEN Return(response)
    ELSE LET data == response.body
         IN IF data = Invalid THEN Raise(Exc("JSONDecodeError"))
            ELSE IF PyIn("error", data) = "TypeError"
            THEN Raise(Exc("TypeError"))
            ELSE IF PyIn("error", data) = "T"
            THEN (IF GetError(data).kind = "raise" THEN GetError(data)
                  ELSE Create)
            ELSE IF PyIn("results", data) = "T"
            THEN InspectResults(data, response)
            ELSE Return(response)

SwallowedNever(exc) == FALSE

\* except RequestException
Swallowed(exc) == IsRequestException(exc)

ProvisionedAnyResults(body) ==
    body.t = "dict" /\ "results" \in DOMAIN body.v

\* db_resp == {'results': [{'statement_id': 0}]}
Provisioned(body) == body = CreatedBody

\* create_database: o is what session.request produced, a transport error
\* or a response.
CreateDatabaseResult(o) ==
    IF o \in TransportErrors THEN Raise(o)
    ELSE IF CheckAndRaise(o).kind = "raise" THEN CheckAndRaise(o)
    ELSE IF o.body = Invalid THEN Raise(Exc("JSONDecodeError"))
    ELSE Return(o.body)

\* --------------------------------------------------------------- the state
Databases == {"", "db"}

DefaultUrl == "http://127.0.0.1:8086"

InitClient ==
    /\ url = DefaultUrl
    /\ timeout = 60
    /\ precision = "u"
    /\ jsonErrorIsRequestException \in BOOLEAN
    /\ callers = {1}
    /\ pc = [c \in callers |-> "idle"]
    /\ op = [c \in callers |-> None]
    /\ kwargs = [c \in callers |-> None]
    /\ calls = [c \in callers |-> <<>>]
    /\ replies = [c \in callers |-> <<>>]
    /\ resp = [c \in callers |-> None]
    /\ db_resp = [c \in callers |-> None]
    /\ result = [c \in callers |-> None]
    /\ outcome = [c \in callers |-> None]

Init ==
    /\ InitClient
    /\ args = None
    /\ ret = None

\* Caller c starts the operation name, which goes through _safe_request:
\* given are the arguments of the operation that the properties read back,
\* kw the keyword fields of the request.
Begin(c, name, given, influxql, kw) ==
    /\ pc[c] = "idle"
    /\ pc' = [pc EXCEPT ![c] = "request"]
    /\ op' = [op EXCEPT ![c] = [name |-> name, influxql |-> influxql,
                                given |-> given]]
    /\ kwargs' = [kwargs EXCEPT ![c] = kw]
    /\ UNCHANGED <<pure, client, jsonErrorIsRequestException, callers, calls,
                   replies, resp, db_resp, result, outcome>>


\* ------------------------------------------------------------------ unpack
\* dict.get(key, default) on a decoded JSON object.
Get(obj, key, default) ==
    IF key \in DOMAIN obj.v THEN obj.v[key] ELSE default

Empty == <<JList(<<>>), JList(<<>>)>>

\* The step unpack takes twice, on 'results' and on 'series':
\*     if not result or not len(result): return empty
\*     result = result[0]
\*     if not result or not isinstance(result, dict): return empty
\* Return(Empty) is the early return, Go(d) the dict unpack goes on with.
Go(d) == [kind |-> "go", value |-> d]

FirstDict(obj) ==
    IF ~Truthy(obj) THEN Return(Empty)
    ELSE IF PyLen(obj) = -1 THEN Raise(Exc("TypeError"))
    ELSE IF First(obj).kind = "raise" THEN First(obj)
    ELSE IF ~Truthy(First(obj).value) \/ First(obj).value.t # "dict"
         THEN Return(Empty)
    ELSE Go(First(obj).value)

\* columns and values of a series object.
Columns(series) ==
    LET columns == Get(series, "columns", None)
    IN IF ~Truthy(columns) THEN Return(Empty)
       ELSE IF PyLen(columns) = -1 THEN Raise(Exc("TypeError"))
       ELSE Return(<<columns, Get(series, "values", JList(<<>>))>>)

Unpack(res) ==
    IF res.t # "dict" THEN Raise(Exc("AttributeError"))
    ELSE LET statement == FirstDict(Get(res, "results", None))
         IN IF statement.kind # "go" THEN statement
            ELSE LET series == FirstDict(Get(statement.value, "series", None))
                 IN IF series.kind # "go" THEN series
                    ELSE Columns(series.value)

\* Results handed to unpack.  A key whose value is Absent is left out.
Absent == [t |-> "absent"]

Obj(r) == JDict([k \in {j \in DOMAIN r : r[j] # Absent} |-> r[k]])

OtherSeries ==
    JDict([name |-> JStr(<<"o">>), columns |-> JList(<<JStr(<<"x">>)>>),
           values |-> JList(<<JList(<<JNum(3)>>)>>)])

\* Lists of up to MaxEntries entries that start with e.
ListsFrom(entries, other) ==
    {<<>>} \cup
    UNION { { <<e>> \o [i \in 1..(n - 1) |-> other] : e \in entries } :
            n \in 1..MaxEntries }

\* Decoded bodies by shape: every key present or absent, of the expected type
\* or of another one.
UnpackInputs ==
    LET ColumnsValues ==
            { Absent, JNull, JList(<<>>), JNum(5),
              JList(<<JStr(<<"t">>), JStr(<<"v">>)>>) }
        ValuesValues ==
            { Absent, JList(<<>>), JList(<<JList(<<JNum(1), JNum(2)>>)>>) }
        SeriesObjects ==
            { Obj([name |-> n, columns |-> c, values |-> v]) :
                n \in {Absent, JStr(<<"m">>)}, c \in ColumnsValues,
                v \in ValuesValues }
        SeriesValues ==
            { Absent, JNull, JNum(5), JDict([name |-> JStr(<<"m">>)]) } \cup
            { JList(l) :
                l \in ListsFrom(SeriesObjects \cup {JNull, JNum(5),
                                                    JList(<<>>)},
                                OtherSeries) }
        StatementObjects ==
            { EmptyDict } \cup
            { Obj([statement_id |-> JNum(0), series |-> sv]) :
                sv \in SeriesValues }
        OtherStatement ==
            JDict([statement_id |-> JNum(1),
                   series |-> JList(<<OtherSeries>>)])
        ResultsValues ==
            { Absent, JNull, JNum(5), JDict([error |-> JStr(OtherError)]) }
            \cup
            { JList(l) :
                l \in ListsFrom(StatementObjects \cup {JNull, JNum(5),
                                                       JList(<<>>)},
                                OtherStatement) }
    IN  { JNull, JList(<<>>) } \cup
        { Obj([results |-> rv]) : rv \in ResultsValues }

\* ----------------------------------- calls that read no state of the client
orchestrator ==
    <<client, jsonErrorIsRequestException, callers, pc, op, kwargs, calls,
      replies, resp, db_resp, result, outcome>>

Called(fn) == "fn" \in DOMAIN args /\ args.fn = fn

unpack ==
    /\ Called("unpack")
    /\ ret = None
    /\ ret' = Unpack(args.result)
    /\ UNCHANGED <<args, orchestrator>>

InitUnpack ==
    /\ InitClient
    /\ args \in { [fn |-> "unpack", result |-> x] : x \in UnpackInputs }
    /\ ret = None

SpecUnpack == InitUnpack /\ [][unpack]_vars

\* ----------------------------------------------------------- line protocol
\* Python values of tags, fields and timestamps: str (t = "str", a sequence
\* of characters), int, bool and None.
\* An int is kept as its sign and its magnitude in base 10000, most
\* significant limb first, since timestamps exceed the range of the model's
\* integers.
RECURSIVE Limbs(_)
Limbs(n) ==
    IF n < 10000 THEN <<n>> ELSE Append(Limbs(n \div 10000), n % 10000)

PyInt(n) ==
    [t |-> "int", neg |-> n < 0, d |-> Limbs(IF n < 0 THEN -n ELSE n)]
PyBool(b) == [t |-> "bool", v |-> b]

Digit(d) ==
    CASE d = 0 -> "0" [] d = 1 -> "1" [] d = 2 -> "2" [] d = 3 -> "3"
      [] d = 4 -> "4" [] d = 5 -> "5" [] d = 6 -> "6" [] d = 7 -> "7"
      [] d = 8 -> "8" [] d = 9 -> "9"

\* The decimal digits of a limb.
RECURSIVE StrSmall(_)
StrSmall(n) ==
    IF n < 10 THEN <<Digit(n)>>
    ELSE Append(StrSmall(n \div 10), Digit(n % 10))

\* str(n) of a natural number given by its limbs, and of an int: every limb
\* but the first is padded with zeros to four digits.
RECURSIVE StrLimbs(_)
StrLimbs(d) ==
    IF Len(d) = 1 THEN StrSmall(d[1])
    ELSE StrLimbs(SubSeq(d, 1, Len(d) - 1))
         \o [i \in 1..4 |-> Digit((d[Len(d)] \div 10^(4 - i)) % 10)]

StrInt(n) == IF n.neg THEN <<"-">> \o StrLimbs(n.d) ELSE StrLimbs(n.d)

\* ---- arithmetic on naturals given by their limbs
RECURSIVE Norm(_)
Norm(d) == IF Len(d) > 1 /\ Head(d) = 0 THEN Norm(Tail(d)) ELSE d

\* a + b, from the least significant limb, with carry c.
RECURSIVE AddC(_, _, _)
AddC(a, b, c) ==
    IF a = <<>> /\ b = <<>> THEN (IF c = 0 THEN <<>> ELSE <<c>>)
    ELSE LET x == IF a = <<>> THEN 0 ELSE a[Len(a)]
             y == IF b = <<>> THEN 0 ELSE b[Len(b)]
             ra == IF a = <<>> THEN <<>> ELSE SubSeq(a, 1, Len(a) - 1)
             rb == IF b = <<>> THEN <<>> ELSE SubSeq(b, 1, Len(b) - 1)
         IN Append(AddC(ra, rb, (x + y + c) \div 10000),
                   (x + y + c) % 10000)

BigAdd(a, b) == Norm(AddC(a, b, 0))

\* a * k for a limb k, with carry c.
RECURSIVE MulC(_, _, _)
MulC(a, k, c) ==
    IF a = <<>> THEN (IF c = 0 THEN <<>> ELSE <<c>>)
    ELSE Append(MulC(SubSeq(a, 1, Len(a) - 1), k,
                     (a[Len(a)] * k + c) \div 10000),
                (a[Len(a)] * k + c) % 10000)

RECURSIVE BigMul(_, _)
BigMul(a, b) ==
    IF b = <<>> THEN <<0>>
    ELSE BigAdd(Norm(BigMul(a, SubSeq(b, 1, Len(b) - 1)) \o <<0>>),
                Norm(MulC(a, b[Len(b)], 0) \o <<>>))

\* a div n for 0 < n <= 2^16, from the most significant limb, with the
\* remainder r carried down.
RECURSIVE DivC(_, _, _)
DivC(a, n, r) ==
    IF a = <<>> THEN <<>>
    ELSE <<(r * 10000 + Head(a)) \div n>>
         \o DivC(Tail(a), n, (r * 10000 + Head(a)) % n)

BigOdd(a) == a[Len(a)] % 2 = 1

RECURSIVE LexLess(_, _)
LexLess(a, b) ==
    /\ a # <<>>
    /\ \/ Head(a) < Head(b)
       \/ Head(a) = Head(b) /\ LexLess(Tail(a), Tail(b))

BigLess(a, b) == Len(a) < Len(b) \/ (Len(a) = Len(b) /\ LexLess(a, b))

\* a * 2^k and a div 2^k, sixteen bits at a time.
RECURSIVE Shl(_, _)
Shl(a, k) ==
    IF k > 16 THEN BigMul(Shl(a, k - 16), Limbs(2^16))
    ELSE BigMul(a, Limbs(2^k))

RECURSIVE Shr(_, _)
Shr(a, k) ==
    IF k > 16 THEN Norm(DivC(Shr(a, k - 16), 2^16, 0))
    ELSE Norm(DivC(a, 2^k, 0))

\* ---- floats: a double is m * 2^e with m < 2^53 + 1 given by its limbs
PyFloat(m, e) == [t |-> "float", m |-> m, e |-> e]

Two53 == Shl(<<1>>, 53)

\* The number of low bits a product p drops to fit 53 bits: the least k with
\* p < 2^(53 + k).
ExcessBits(p) ==
    CHOOSE j \in 0..64 :
        /\ BigLess(p, Shl(Two53, j))
        /\ j > 0 => ~BigLess(p, Shl(Two53, j - 1))

\* p without its k low bits, the dropped bits ignored.
RoundBitsDown(p, k) == Shr(p, k)

\* p without its k low bits, rounded to nearest with ties to even: one is
\* added when the highest dropped bit is set and either a lower dropped bit
\* is set or the kept part is odd.
RoundBits(p, k) ==
    IF k = 0 THEN p
    ELSE IF /\ BigOdd(Shr(p, k - 1))
            /\ \/ Shl(Shr(p, k - 1), k - 1) # p
               \/ BigOdd(Shr(p, k))
         THEN BigAdd(Shr(p, k), <<1>>)
         ELSE Shr(p, k)

\* The double nearest to p * 2^e.
Round53(p, e) == PyFloat(RoundBits(p, ExcessBits(p)), e + ExcessBits(p))

\* x * y of two doubles.
FMul(x, y) == Round53(BigMul(x.m, y.m), x.e + y.e)

\* int(x) of a double that is not negative.
IntOfFloat(x) ==
    [t |-> "int", neg |-> FALSE,
     d |-> IF x.e >= 0 THEN Shl(x.m, x.e) ELSE Shr(x.m, -x.e)]

\* repr(x) of a double that is a whole number or a whole number and a half,
\* below 10^16.
Repr(x) ==
    StrLimbs(IF x.e >= 0 THEN Shl(x.m, x.e) ELSE Shr(x.m, 1))
    \o <<".", IF x.e = -1 /\ BigOdd(x.m) THEN "5" ELSE "0">>

\* ---- text
Ord(ch) ==
    CASE ch = "\n" -> 10
      [] ch = " " -> 32
      [] ch = "\"" -> 34
      [] ch = "," -> 44
      [] ch = "-" -> 45
      [] ch = "." -> 46
      [] ch = "0" -> 48
      [] ch = "1" -> 49
      [] ch = "2" -> 50
      [] ch = "3" -> 51
      [] ch = "4" -> 52
      [] ch = "5" -> 53
      [] ch = "6" -> 54
      [] ch = "7" -> 55
      [] ch = "8" -> 56
      [] ch = "9" -> 57
      [] ch = "=" -> 61
      [] ch = "\\" -> 92
      [] ch = "_" -> 95
      [] ch = "a" -> 97
      [] ch = "b" -> 98
      [] ch = "c" -> 99
      [] ch = "d" -> 100
      [] ch = "e" -> 101
      [] ch = "f" -> 102
      [] ch = "g" -> 103
      [] ch = "h" -> 104
      [] ch = "i" -> 105
      [] ch = "j" -> 106
      [] ch = "k" -> 107
      [] ch = "l" -> 108
      [] ch = "m" -> 109
      [] ch = "n" -> 110
      [] ch = "o" -> 111
      [] ch = "p" -> 112
      [] ch = "q" -> 113
      [] ch = "r" -> 114
      [] ch = "s" -> 115
      [] ch = "t" -> 116
      [] ch = "u" -> 117
      [] ch = "v" -> 118
      [] ch = "w" -> 119
      [] ch = "x" -> 120
      [] ch = "y" -> 121
      [] ch = "z" -> 122

RECURSIVE LessText(_, _)
LessText(a, b) ==
    /\ b # <<>>
    /\ \/ a = <<>>
       \/ Ord(Head(a)) < Ord(Head(b))
       \/ Head(a) = Head(b) /\ LessText(Tail(a), Tail(b))

\* sep.join(texts)
RECURSIVE Join(_, _)
Join(texts, sep) ==
    IF texts = <<>> THEN <<>>
    ELSE IF Len(texts) = 1 THEN texts[1]
    ELSE texts[1] \o sep \o Join(Tail(texts), sep)

\* s.replace(ch, rep) for a single character ch.
RECURSIVE Replace(_, _, _)
Replace(s, ch, rep) ==
    IF s = <<>> THEN <<>>
    ELSE (IF Head(s) = ch THEN rep ELSE <<Head(s)>>)
         \o Replace(Tail(s), ch, rep)

EscapeText(text) ==
    Replace(Replace(Replace(Replace(text,
        "\\", <<"\\", "\\">>),
        " ", <<"\\", " ">>),
        ",", <<"\\", ",">>),
        "=", <<"\\", "=">>)

\* str(value)
Str(value) ==
    CASE value.t = "str" -> value.v
      [] value.t = "int" -> StrInt(value)
      [] value.t = "bool" ->
            IF value.v THEN <<"T", "r", "u", "e">>
            ELSE <<"F", "a", "l", "s", "e">>
      [] value.t = "float" -> Repr(value)
      [] value.t = "None" -> <<"N", "o", "n", "e">>

\* _get_unicode without the case of None.
GetUnicodeNoneKept(data, force) ==
    IF force THEN JStr(Str(data)) ELSE data

GetUnicode(data, force) ==
    IF data.t = "None" THEN JStr(<<>>)
    ELSE IF force THEN JStr(Str(data))
    ELSE data

\* _escape_tag with the replacement of the comma left out.
EscapeTagNoComma(tag) ==
    Replace(Replace(Replace(GetUnicode(tag, TRUE).v,
        "\\", <<"\\", "\\">>),
        " ", <<"\\", " ">>),
        "=", <<"\\", "=">>)

EscapeTag(tag) == EscapeText(GetUnicode(tag, TRUE).v)

EndsWith(s, ch) == s # <<>> /\ s[Len(s)] = ch

EscapeTagValue(value) ==
    EscapeTag(value)
    \o (IF EndsWith(EscapeTag(value), "\\") THEN <<" ">> ELSE <<>>)

\* quote_ident with the backslash replaced last.
QuoteIdentBackslashLast(text) ==
    <<"\"">>
    \o Replace(Replace(Replace(text,
           "\"", <<"\\", "\"">>),
           "\n", <<"\\", "n">>),
           "\\", <<"\\", "\\">>)
    \o <<"\"">>

\* quote_ident
QuoteIdent(text) ==
    <<"\"">>
    \o Replace(Replace(Replace(text,
           "\\", <<"\\", "\\">>),
           "\"", <<"\\", "\"">>),
           "\n", <<"\\", "n">>)
    \o <<"\"">>

\* _is_float: float(value) does not raise, for a value that is not a
\* non-empty str.
IsFloat(value) == value.t \in {"float", "int", "bool"}

EscapeValue(value) ==
    LET v == GetUnicode(value, FALSE)
    IN IF v.t = "str" /\ v.v # <<>> THEN QuoteIdent(v.v)
       ELSE IF v.t = "int" THEN StrInt(v)
       ELSE IF IsFloat(v) THEN Str(v)
       ELSE Str(v)

\* ---- dicts: a mapping is the sequence of its items [k, v] in insertion
\* order, with no key twice; the keys are str values.
Item(k, v) == [k |-> k, v |-> v]

HasKey(d, k) == \E i \in DOMAIN d : d[i].k = k

Lookup(d, k) == d[CHOOSE i \in DOMAIN d : d[i].k = k].v

\* del d[k], d.pop(k)
Remove(d, k) == SelectSeq(d, LAMBDA item : item.k # k)

\* d[k] = v
Put(d, k, v) ==
    IF HasKey(d, k)
    THEN [i \in DOMAIN d |-> IF d[i].k = k THEN Item(k, v) ELSE d[i]]
    ELSE Append(d, Item(k, v))

\* d.update(other)
RECURSIVE Update(_, _)
Update(d, other) ==
    IF other = <<>> THEN d
    ELSE Update(Put(d, Head(other).k, Head(other).v), Tail(other))

\* The items in the order of the mapping.
Unsorted(d) == d

\* sorted(d.items()): the item of rank r has r - 1 smaller keys.
Sorted(d) ==
    [r \in 1..Len(d) |->
        d[CHOOSE i \in DOMAIN d :
            Cardinality({j \in DOMAIN d :
                            LessText(d[j].k.v, d[i].k.v)}) = r - 1]]

\* ---- _convert_timestamp
\* The factor of nanoseconds whatever the precision.
FloatFactorNanos(prec) == PyFloat(Limbs(1953125), 9)

\* factor, as a double: 1e9, 1e6, 1e3, 1, 1/60 and 1/3600.
FloatFactor(prec) ==
    CASE prec \in {None, JStr(<<"n">>)} -> PyFloat(Limbs(1953125), 9)
      [] prec = JStr(<<"u">>) -> PyFloat(Limbs(15625), 6)
      [] prec = JStr(<<"m", "s">>) -> PyFloat(Limbs(125), 3)
      [] prec = JStr(<<"s">>) -> PyFloat(<<1>>, 0)
      [] prec = JStr(<<"m">>) -> PyFloat(<<4803, 8396, 252, 8529>>, -58)
      [] prec = JStr(<<"h">>) -> PyFloat(<<5124, 955, 7603, 431>>, -64)
      [] OTHER -> None

\* 10^e as limbs, for the bounds 1e18, 1e15 and 1e12.
RECURSIVE Pow10(_)
Pow10(e) == IF e < 4 THEN <<10^e>> ELSE Append(Pow10(e - 4), 0)

\* No bound at all.
IntLessAlways(timestamp, bound) == TRUE

\* timestamp < bound for an int.
IntLess(timestamp, bound) == timestamp.neg \/ BigLess(timestamp.d, bound)

\* A bool is an Integral too and compares as 0 or 1.  A datetime is given
\* by its whole seconds since the epoch, in UTC.
ConvertTimestamp(timestamp, prec) ==
    CASE timestamp.t = "int" ->
            IF CASE prec = JStr(<<"u">>) -> IntLess(timestamp, Pow10(18))
                 [] prec = JStr(<<"m", "s">>) -> IntLess(timestamp, Pow10(15))
                 [] prec = JStr(<<"s">>) -> IntLess(timestamp, Pow10(12))
                 [] OTHER -> TRUE
            THEN Return(timestamp)
            ELSE Raise(Exc("AssertionError"))
      [] timestamp.t = "bool" -> Return(timestamp)
      [] timestamp.t \in {"float", "datetime"} ->
            IF FloatFactor(prec) = None THEN Raise(Exc("UnboundLocalError"))
            ELSE Return(FMul(IF timestamp.t = "float" THEN timestamp
                             ELSE PyFloat(timestamp.s, 0),
                             FloatFactor(prec)))
      [] OTHER -> Raise(Exc("ValueError"))

\* str(int(x))
StrOfInt(x) ==
    CASE x.t = "int" -> StrInt(x)
      [] x.t = "bool" -> IF x.v THEN <<"1">> ELSE <<"0">>
      [] x.t = "float" -> StrInt(IntOfFloat(x))

\* ---- make_lines
\* A point and the batch are records; an optional key ('tags', 'time',
\* 'measurement') is a field the record may lack.
OrEmpty(rec, key) ==
    IF key \in DOMAIN rec THEN rec[key] ELSE <<>>

\* The tags of a point: a copy of the shared tags updated with its own, or
\* its own when there are no shared tags.
TagsOf(static_tags, point) ==
    IF static_tags # <<>> THEN Update(static_tags, OrEmpty(point, "tags"))
    ELSE OrEmpty(point, "tags")

\* The shared tags after a point whose tags were updated in the shared
\* mapping itself.
StaticAfterAliased(static_tags, point) ==
    Update(static_tags, OrEmpty(point, "tags"))

\* The shared tags after a point: dict(static_tags) took a copy.
StaticAfter(static_tags, point) == static_tags

\* key=value of every item whose escaped key and value are not empty.
KeyValues(items, escape(_)) ==
    SelectSeq([i \in DOMAIN items |->
                  IF EscapeTag(items[i].k) # <<>> /\ escape(items[i].v) # <<>>
                  THEN EscapeTag(items[i].k) \o <<"=">> \o escape(items[i].v)
                  ELSE <<>>],
              LAMBDA text : text # <<>>)

\* One iteration of the loop: the measurement is the point's, else the
\* batch's, else None.
MakeLine(point, static_tags, data, prec) ==
    LET measurement ==
            IF "measurement" \in DOMAIN point THEN point.measurement
            ELSE IF "measurement" \in DOMAIN data THEN data.measurement
            ELSE None
        key_values == <<EscapeTag(GetUnicode(measurement, FALSE))>>
                      \o KeyValues(Sorted(TagsOf(static_tags, point)),
                                   EscapeTagValue)
        field_values == KeyValues(Sorted(point.fields), EscapeValue)
        elements == <<Join(key_values, <<",">>), Join(field_values, <<",">>)>>
        stamp == IF "time" \in DOMAIN point
                 THEN ConvertTimestamp(point.time, prec)
                 ELSE Return(None)
    IN IF stamp.kind = "raise" THEN stamp
       ELSE Return(Join(elements
                        \o (IF "time" \in DOMAIN point
                            THEN <<StrOfInt(stamp.value)>> ELSE <<>>),
                        <<" ">>))

\* The outcome of every iteration of the loop over the points.
RECURSIVE Lines(_, _, _, _)
Lines(points, static_tags, data, prec) ==
    IF points = <<>> THEN <<>>
    ELSE <<MakeLine(Head(points), static_tags, data, prec)>>
         \o Lines(Tail(points), StaticAfter(static_tags, Head(points)),
                  data, prec)

\* The exception of the first iteration that raised, or the lines joined.
Joined(lines) ==
    IF \E i \in DOMAIN lines : lines[i].kind = "raise"
    THEN lines[CHOOSE i \in DOMAIN lines :
                 /\ lines[i].kind = "raise"
                 /\ \A j \in 1..(i - 1) : lines[j].kind # "raise"]
    ELSE Return(Join([i \in DOMAIN lines |-> lines[i].value], <<"\n">>)
                \o <<"\n">>)

MakeLines(data, prec) ==
    Joined(Lines(data.points, OrEmpty(data, "tags"), data, prec))

\* ---- _make_lines and _make_many_lines
VALUE == JStr(<<"V", "A", "L", "U", "E">>)

\* Truthiness of a value.
PyTruthy(value) ==
    CASE value.t = "str" -> value.v # <<>>
      [] value.t = "int" -> value.d # <<0>>
      [] value.t = "float" -> value.m # <<0>>
      [] value.t = "bool" -> value.v
      [] value.t = "datetime" -> TRUE
      [] OTHER -> FALSE

\* The keys of the tags marked VALUE, in the order of the mapping.
ValueTags(tags) ==
    LET marked == SelectSeq(tags, LAMBDA item : item.v = VALUE)
    IN [i \in DOMAIN marked |-> marked[i].k]

\* The tags with every marked key left in place.
MarkedKept(tags) == tags

\* The tags once every marked key is deleted.
Unmarked(tags) == SelectSeq(tags, LAMBDA item : item.v # VALUE)

\* d with every key left in place.
RemoveNothing(d, keys) == d

\* d without the keys of the sequence keys.
RemoveAll(d, keys) ==
    SelectSeq(d, LAMBDA item : \A i \in DOMAIN keys : keys[i] # item.k)

\* _make_lines: the outcome and the caller's tags and fields after the
\* call.  fields.pop(tag_key) raises KeyError at the first marked key that
\* fields lacks, after the pops before it.
MakeLinesSingle(measurement, fields, tags, time, prec) ==
    LET value_tags == ValueTags(tags)
        missing == {i \in DOMAIN value_tags : ~HasKey(fields, value_tags[i])}
        popped == IF missing = {} THEN value_tags
                  ELSE SubSeq(value_tags, 1,
                              (CHOOSE i \in missing :
                                   \A j \in missing : i <= j) - 1)
        point_tags == [i \in DOMAIN popped |->
                          Item(popped[i], Lookup(fields, popped[i]))]
        after == [tags |-> Unmarked(tags),
                  fields |-> RemoveAll(fields, popped)]
        point == [measurement |-> measurement, fields |-> after.fields,
                  time |-> time, tags |-> point_tags]
    IN IF missing # {} THEN [out |-> Raise(Exc("KeyError")), after |-> after]
       ELSE [out |-> MakeLines([tags |-> after.tags, points |-> <<point>>],
                               prec),
             after |-> after]

\* dict(zip(fields, line)): pairs up to the shorter of the two.
RECURSIVE ZipN(_, _, _)
ZipN(names, line, n) ==
    IF n = 0 THEN <<>>
    ELSE Put(ZipN(names, line, n - 1), names[n], line[n])

Zip(names, line) ==
    ZipN(names, line, IF Len(names) < Len(line) THEN Len(names) ELSE Len(line))

\* The point _make_many_lines builds from one row of values.
RowPoint(measurement, fields, row, value_tags, time_field) ==
    LET line == Zip(fields, row)
        point_tags == [i \in DOMAIN value_tags |->
                          Item(value_tags[i],
                               IF HasKey(line, value_tags[i])
                               THEN Lookup(line, value_tags[i]) ELSE None)]
        rest == RemoveAll(line, value_tags)
    IN IF /\ PyTruthy(time_field)
          /\ HasKey(rest, time_field)
          /\ PyTruthy(Lookup(rest, time_field))
       THEN [measurement |-> measurement,
             fields |-> Remove(rest, time_field),
             tags |-> point_tags,
             time |-> Lookup(rest, time_field)]
       ELSE [measurement |-> measurement, fields |-> rest,
             tags |-> point_tags]

MakeManyLines(measurement, fields, values, tags, time_field, prec) ==
    MakeLines([tags |-> Unmarked(tags),
               points |-> [i \in DOMAIN values |->
                              RowPoint(measurement, fields, values[i],
                                       ValueTags(tags), time_field)]],
              prec)

\* The caller's objects after _make_many_lines had the marked keys been
\* deleted from the caller's own tags.
ManyAfterAliased(fields, values, tags) ==
    [tags |-> Unmarked(tags), fields |-> fields, values |-> values]

\* The caller's objects after _make_many_lines: the marked keys are deleted
\* from a copy of the tags, and the pops act on the mapping zipped from the
\* field names and a row, never on the list of names or the row.
ManyAfter(fields, values, tags) ==
    [tags |-> tags, fields |-> fields, values |-> values]

\* Strings of up to MaxLen characters, with every character the escaping
\* rules name and one they do not, and two values that are no str.
EscapeInputs ==
    { JStr(x) : x \in UNION { [1..k -> {"a", ",", "=", " ", "\\"}] :
                                k \in 0..MaxLen } }
    \cup { None, PyInt(-12) }

escape_tag ==
    /\ Called("_escape_tag")
    /\ ret = None
    /\ ret' = Return(EscapeTag(args.tag))
    /\ UNCHANGED <<args, orchestrator>>

escape_tag_value ==
    /\ Called("_escape_tag_value")
    /\ ret = None
    /\ ret' = Return(EscapeTagValue(args.value))
    /\ UNCHANGED <<args, orchestrator>>

escape_value ==
    /\ Called("_escape_value")
    /\ ret = None
    /\ ret' = Return(EscapeValue(args.value))
    /\ UNCHANGED <<args, orchestrator>>

\* The values given to _escape_value are strings of up to MaxLen characters
\* over the characters quote_ident replaces and one it does not, ints of one
\* and two limbs, bools, floats and None.
InitEscape ==
    /\ InitClient
    /\ \/ args \in { [fn |-> "_escape_tag", tag |-> x] : x \in EscapeInputs }
       \/ args \in { [fn |-> "_escape_tag_value", value |-> x] :
                       x \in EscapeInputs }
       \/ args \in { [fn |-> "_escape_value", value |-> x] :
                       x \in { JStr(y) :
                                 y \in UNION { [1..k -> {"a", "\"", "\n", "\\"}] :
                                                 k \in 0..MaxLen } }
                              \cup { None, PyInt(0), PyInt(2), PyInt(-12),
                                     PyInt(10005), PyBool(TRUE),
                                     PyBool(FALSE), PyFloat(<<1>>, 0),
                                     PyFloat(<<3>>, -1) } }
    /\ ret = None

SpecEscape ==
    InitEscape /\ [][escape_tag \/ escape_tag_value \/ escape_value]_vars

\* ---- calls of make_lines, _make_lines and _make_many_lines
Key(ch) == JStr(<<ch>>)

Measurement == JStr(<<"m">>)

\* The float 1521241703.097608192 is the double 6380550160269110 * 2^-22.
TestTime == PyFloat(<<6380, 5501, 6026, 9110>>, -22)

\* What pytool.time.utcnow() may return.
Clock == { [t |-> "datetime", s |-> <<15, 2124, 1703>>] }

\* Sequences of up to n elements of a set.
SeqsUpTo(set, n) == UNION { [1..k -> set] : k \in 0..n }

\* Shared tags in either key order; point tags that override a shared tag and
\* values with a newline or a space; fields of each type; points without tags,
\* with tags, and with a time.
MakeLinesCalls ==
    LET SharedTags ==
            { <<>>,
              <<Item(Key("a"), JStr(<<"x">>))>>,
              <<Item(Key("c"), JStr(<<"y">>)),
                Item(Key("a"), JStr(<<"x">>))>> }
        PointTags ==
            { <<>>,
              <<Item(Key("b"), JStr(<<"y">>)), Item(Key("a"), JStr(<<"z">>))>>,
              <<Item(Key("a"), JStr(<<"n", "\n", "l">>))>>,
              <<Item(Key("b"), JStr(<<"p", " ", "q">>))>> }
        PointFields ==
            { <<Item(Key("g"), PyInt(2)), Item(Key("f"), PyInt(1))>>,
              <<Item(Key("f"), JStr(<<"s", "\n">>))>>,
              <<Item(Key("f"), PyFloat(<<1>>, 0))>> }
        Points ==
            { [fields |-> <<Item(Key("f"), PyInt(1))>>],
              [fields |-> <<Item(Key("f"), PyInt(1))>>, tags |-> <<>>,
               time |-> PyInt(1000)] }
            \cup { [fields |-> f, tags |-> t] :
                     f \in PointFields, t \in PointTags }
    IN  { [fn |-> "make_lines",
           data |-> [tags |-> st, points |-> ps, measurement |-> Measurement],
           precision |-> None] :
            st \in SharedTags, ps \in SeqsUpTo(Points, MaxPoints) }

make_lines ==
    /\ Called("make_lines")
    /\ ret = None
    /\ ret' = MakeLines(args.data, args.precision)
    /\ UNCHANGED <<args, orchestrator>>

Tag1 == JStr(<<"t", "a", "g", "1">>)
TestTag == JStr(<<"t", "e", "s", "t", "_", "t", "a", "g">>)
Field1 == JStr(<<"f", "i", "e", "l", "d", "1">>)
Field2 == JStr(<<"f", "i", "e", "l", "d", "2">>)
Microsecond == JStr(<<"u">>)
Value1 == JStr(<<"v", "a", "l", "u", "e", "1">>)

\* TagSources are the values of the field a value tag takes its value from.
\* The tags mark no key, one key or two keys VALUE, or hold an empty key and
\* empty values; the fields hold the marked keys or lack them, and one
\* mapping holds an empty key and empty values.  The times are a float, ints
\* below and at the bounds of the sanity check, a bool and a str; the
\* precisions are every one the code names, None and one it does not name.
SingleCalls ==
    LET Big(d) == [t |-> "int", neg |-> FALSE, d |-> d]
        TagSources ==
            { PyInt(1), PyFloat(<<1>>, 0), PyBool(TRUE), JStr(<<"s">>),
              JStr(<<>>), None }
        SingleTags ==
            { <<>>,
              <<Item(Tag1, TestTag)>>,
              <<Item(Tag1, TestTag), Item(Key("a"), VALUE)>>,
              <<Item(Key("a"), VALUE)>>,
              <<Item(Key("a"), VALUE), Item(Key("b"), VALUE)>>,
              <<Item(Key("t"), JStr(<<>>)), Item(Tag1, TestTag),
                Item(JStr(<<>>), JStr(<<"x">>)), Item(Key("n"), None)>> }
        SingleFields ==
            { <<Item(Field1, PyFloat(<<1>>, 0)), Item(Field2, PyInt(2))>>,
              <<Item(Key("f"), PyInt(2))>>,
              <<Item(Key("b"), PyInt(1)), Item(Key("f"), PyInt(2))>>,
              <<Item(Key("a"), PyInt(1)), Item(Key("b"), PyInt(2)),
                Item(Key("f"), PyInt(3))>>,
              <<Item(JStr(<<>>), PyInt(1)), Item(Key("n"), None),
                Item(Key("e"), JStr(<<>>)), Item(Key("f"), PyInt(2))>> }
            \cup { <<Item(Key("a"), v), Item(Key("f"), PyInt(2))>> :
                     v \in TagSources }
        Times ==
            { TestTime, PyFloat(<<3>>, -1), None, PyInt(1000), PyInt(-5),
              PyBool(TRUE), JStr(<<"x">>),
              Big(<<9999, 9999, 9999>>), Big(<<1, 0, 0, 0>>),
              Big(<<999, 9999, 9999, 9999>>), Big(<<1000, 0, 0, 0>>),
              Big(<<99, 9999, 9999, 9999, 9999>>), Big(<<100, 0, 0, 0, 0>>) }
        Precisions ==
            { None, Microsecond, JStr(<<"n">>), JStr(<<"m", "s">>),
              JStr(<<"s">>), JStr(<<"m">>), JStr(<<"h">>), JStr(<<"x">>) }
    IN  { [fn |-> "_make_lines", measurement |-> Measurement, fields |-> f,
           tags |-> t, time |-> time, precision |-> prec] :
            f \in SingleFields, t \in SingleTags, time \in Times,
            prec \in Precisions }

\* _make_lines
make_lines_single ==
    /\ Called("_make_lines")
    /\ ret = None
    /\ \E now \in Clock :
          ret' = MakeLinesSingle(args.measurement, args.fields, args.tags,
                                 IF args.time.t = "None" THEN now
                                 ELSE args.time,
                                 args.precision)
    /\ UNCHANGED <<args, orchestrator>>

TimeField == JStr(<<"t", "s">>)

ManyCalls ==
    LET Rows ==
            { <<PyInt(1), PyInt(2)>> }
            \cup { <<a, PyInt(2), ts>> :
                     a \in {PyInt(1), JStr(<<"s">>), None},
                     ts \in {PyInt(1000), PyInt(0), None} }
        ManyTags ==
            { <<Item(Tag1, TestTag)>>,
              <<Item(Tag1, TestTag), Item(Key("a"), VALUE)>> }
    IN  { [fn |-> "_make_many_lines", measurement |-> Measurement,
           fields |-> <<Key("a"), Key("b"), TimeField>>, values |-> rows,
           tags |-> t, time_field |-> tf, precision |-> None] :
            rows \in SeqsUpTo(Rows, MaxPoints), t \in ManyTags,
            tf \in {None, TimeField} }

\* _make_many_lines
make_many_lines ==
    /\ Called("_make_many_lines")
    /\ ret = None
    /\ ret' = [out |-> MakeManyLines(args.measurement, args.fields,
                                     args.values, args.tags, args.time_field,
                                     args.precision),
               after |-> ManyAfter(args.fields, args.values, args.tags)]
    /\ UNCHANGED <<args, orchestrator>>

\* ---- _format_tags
\* A list or tuple of values.
PyList(items) == [t |-> "list", items |-> items]

\* One condition with the value between double quotes.
FormatTagDoubleQuoted(tag, value) ==
    <<"\"">> \o Str(tag) \o <<"\"", "=", "\"">> \o Str(value) \o <<"\"">>

\* One condition: "tag"='value', or "tag"=['item','item'] for a list or
\* tuple.
FormatTag(tag, value) ==
    <<"\"">> \o Str(tag) \o <<"\"", "=">>
    \o (IF value.t = "list"
        THEN <<"[">>
             \o Join([i \in DOMAIN value.items |->
                         <<"'">> \o Str(value.items[i]) \o <<"'">>],
                     <<",">>)
             \o <<"]">>
        ELSE <<"'">> \o Str(value) \o <<"'">>)

FormatTags(tags) ==
    Join([i \in DOMAIN tags |->
             FormatTag(Sorted(tags)[i].k, Sorted(tags)[i].v)],
         <<" ", "A", "N", "D", " ">>)

format_tags ==
    /\ Called("_format_tags")
    /\ ret = None
    /\ ret' = Return(FormatTags(args.tags))
    /\ UNCHANGED <<args, orchestrator>>

\* The mappings given to _format_tags hold up to three of the keys tag1,
\* tag2 and a in any order of insertion, each with a string, an int, a list
\* of two strings, a list of an int or an empty list.
InitLines ==
    /\ InitClient
    /\ \/ args \in MakeLinesCalls
       \/ args \in SingleCalls
       \/ args \in ManyCalls
       \/ \E n \in 0..3 :
            \E keys \in [1..n -> {Tag1, JStr(<<"t", "a", "g", "2">>),
                                  Key("a")}] :
              \E values \in [1..n -> {Value1, PyInt(5), PyList(<<>>),
                                      PyList(<<PyInt(7)>>),
                                      PyList(<<Value1,
                                               JStr(<<"v", "a", "l", "u", "e",
                                                      "2">>)>>)}] :
                  /\ \A i, j \in 1..n : keys[i] = keys[j] => i = j
                  /\ args = [fn |-> "_format_tags",
                             tags |-> [i \in 1..n |->
                                          Item(keys[i], values[i])]]
    /\ ret = None

SpecLines ==
    InitLines /\ [][\/ make_lines
                    \/ make_lines_single
                    \/ make_many_lines
                    \/ format_tags]_vars

\* The text of a str as it is formatted into a request.
RECURSIVE Concat(_)
Concat(chars) ==
    IF chars = <<>> THEN "" ELSE Head(chars) \o Concat(Tail(chars))

\* write and write_many once the lines are encoded: an exception of the
\* encoder ends the operation before _safe_request is called.
WriteLines(c, name, given, database, lines) ==
    IF lines.kind = "raise"
    THEN /\ pc' = [pc EXCEPT ![c] = "failed"]
         /\ op' = [op EXCEPT ![c] = [name |-> name, influxql |-> "IQL_WRITE",
                                     given |-> given]]
         /\ outcome' = [outcome EXCEPT ![c] = lines]
         /\ UNCHANGED <<pure, client, jsonErrorIsRequestException, callers,
                        kwargs, calls, replies, resp, db_resp, result>>
    ELSE Begin(c, name, given, "IQL_WRITE",
               [database |-> database, lines |-> Concat(lines.value)])

\* write, up to its call of _safe_request: one field, no tags, and no time,
\* which is the time of the clock, or a time that is a str.
write(c) ==
    /\ pc[c] = "idle"
    /\ \E database \in Databases, time \in {None, JStr(<<"x">>)},
          now \in Clock :
          WriteLines(c, "write", [time |-> time], database,
                     MakeLinesSingle(Measurement,
                                     <<Item(Key("f"), PyInt(1))>>, <<>>,
                                     IF time = None THEN now ELSE time,
                                     JStr(<<precision>>)).out)

\* write_many, up to its call of _safe_request: no rows; a row whose time
\* is '' and a row with the time 1000; a row whose time is 'x'.
write_many(c) ==
    /\ pc[c] = "idle"
    /\ \E database \in Databases,
          values \in { <<>>,
                       << <<PyInt(1), JStr(<<>>)>>,
                          <<PyInt(2), PyInt(1000)>> >>,
                       << <<PyInt(1), JStr(<<"x">>)>> >> } :
          WriteLines(c, "write_many", [values |-> values], database,
                     MakeManyLines(Measurement, <<Key("f"), TimeField>>,
                                   values, <<>>, TimeField,
                                   JStr(<<precision>>)))

\* a direct call of _safe_request with the SELECT template
safe_request(c) ==
    \E database \in Databases :
        Begin(c, "_safe_request", None, "IQL_SELECT",
              [database |-> database, measurement |-> "measurement",
               fields |-> "fields", where |-> "where"])

\* The database of select_into were it always the first argument.
SelectIntoDatabaseFirst(positional) == positional[1]

\* The database of select_into given two or three positional arguments.
SelectIntoDatabase(positional) ==
    IF Len(positional) = 2 THEN "" ELSE positional[1]

\* select_into(*args, where=...), up to its call of _make_request: fields
\* and group_by keep their default '*'.
select_into(c) ==
    /\ pc[c] = "idle"
    /\ \E positional \in SeqsUpTo({"db", "t"}, MaxPositional), where \in {"", "w"} :
          /\ op' = [op EXCEPT ![c] =
                       [name |-> "select_into", influxql |-> "IQL_SELECT_INTO",
                        given |-> [args |-> positional, where |-> where]]]
          /\ IF Len(positional) \in {2, 3}
             THEN /\ pc' = [pc EXCEPT ![c] = "select"]
                  /\ kwargs' =
                        [kwargs EXCEPT ![c] =
                            [database |-> SelectIntoDatabase(positional),
                             target |-> positional[Len(positional) - 1],
                             source |-> positional[Len(positional)],
                             fields |-> "*",
                             where |-> IF where # "" THEN "WHERE " \o where
                                       ELSE "",
                             group_by |-> "GROUP BY *"]]
                  /\ UNCHANGED outcome
             ELSE /\ pc' = [pc EXCEPT ![c] = "failed"]
                  /\ outcome' = [outcome EXCEPT ![c] = Raise(Exc("TypeError"))]
                  /\ UNCHANGED kwargs
    /\ UNCHANGED <<pure, client, jsonErrorIsRequestException, callers, calls,
                   replies, resp, db_resp, result>>

\* What select_into makes of the response: the second entry of the first
\* row of values, or 0 without rows.
SelectIntoResult(r) ==
    IF CheckAndRaise(r).kind = "raise" THEN CheckAndRaise(r)
    ELSE IF r.body = Invalid THEN Raise(Exc("JSONDecodeError"))
    ELSE IF Unpack(r.body).kind = "raise" THEN Unpack(r.body)
    ELSE IF ~Truthy(Unpack(r.body).value[2]) THEN Return(JNum(0))
    ELSE IF PyLen(Unpack(r.body).value[2]) = -1
         THEN Raise(Exc("TypeError"))
    ELSE IF First(Unpack(r.body).value[2]).kind = "raise"
         THEN First(Unpack(r.body).value[2])
    ELSE IF First(Unpack(r.body).value[2]).value.t # "list"
         THEN Raise(Exc("TypeError"))
    ELSE IF Len(First(Unpack(r.body).value[2]).value.v) < 2
         THEN Raise(Exc("IndexError"))
    ELSE Return(First(Unpack(r.body).value[2]).value.v[2])

\* The request of select_into, made by _make_request with no retry, and the
\* end of select_into.  The server may also answer with one row of values.
SelectIntoRequest(c) ==
    /\ pc[c] = "select"
    /\ LET request == MakeRequest("IQL_SELECT_INTO", kwargs[c])
       IN /\ calls' = [calls EXCEPT ![c] = Append(@, request)]
          /\ \/ \E e \in TransportErrors :
                  /\ replies' = [replies EXCEPT ![c] = Append(@, e)]
                  /\ outcome' = [outcome EXCEPT ![c] = Raise(e)]
                  /\ UNCHANGED resp
             \/ \E r \in Responses(Len(calls[c]) + 1, request)
                        \cup { [call |-> Len(calls[c]) + 1,
                                status_code |-> 200,
                                reason |-> [t |-> "str", v |-> <<"N", "o">>],
                                url |-> request.url,
                                body |-> JDict([results |-> JList(<<JDict(
                                    [statement_id |-> JNum(0),
                                     series |-> JList(<<JDict(
                                        [name |-> JStr(<<"r">>),
                                         columns |-> JList(<<JStr(<<"t">>),
                                                             JStr(<<"w">>)>>),
                                         values |-> JList(<<JList(
                                            <<JNum(0), JNum(7)>>)>>)])>>)])
                                    >>)])] } :
                  /\ replies' = [replies EXCEPT ![c] = Append(@, r)]
                  /\ resp' = [resp EXCEPT ![c] = r]
                  /\ outcome' = [outcome EXCEPT ![c] = SelectIntoResult(r)]
    /\ pc' = [pc EXCEPT ![c] = "selected"]
    /\ UNCHANGED <<pure, client, jsonErrorIsRequestException, callers, op,
                   kwargs, db_resp, result>>

\* _safe_request ends with r, were the result kept in one place for all
\* callers.
EndShared(c, r) ==
    /\ pc' = [pc EXCEPT ![c] = "returned"]
    /\ result' = [d \in callers |-> r]

\* _safe_request ends with r, a Return or a Raise.
End(c, r) ==
    /\ pc' = [pc EXCEPT ![c] = "returned"]
    /\ result' = [result EXCEPT ![c] = r]

\* The initial request wrapped in the handler of the create-database step.
FirstRequestSwallowing(c) ==
    /\ pc[c] = "request"
    /\ LET request == MakeRequest(op[c].influxql, kwargs[c])
       IN /\ calls' = [calls EXCEPT ![c] = Append(@, request)]
          /\ \/ \E e \in TransportErrors :
                  /\ replies' = [replies EXCEPT ![c] = Append(@, e)]
                  /\ End(c, Return(None))
                  /\ UNCHANGED resp
             \/ \E r \in Responses(Len(calls[c]) + 1, request) :
                  /\ replies' = [replies EXCEPT ![c] = Append(@, r)]
                  /\ resp' = [resp EXCEPT ![c] = r]
                  /\ IF Inspect(r, kwargs[c].database) = Create
                     THEN /\ pc' = [pc EXCEPT ![c] = "create"]
                          /\ UNCHANGED result
                     ELSE End(c, Inspect(r, kwargs[c].database))
    /\ UNCHANGED <<pure, client, jsonErrorIsRequestException, callers, op, kwargs,
                   db_resp, outcome>>

\* The initial request and the inspection of its response.
FirstRequest(c) ==
    /\ pc[c] = "request"
    /\ LET request == MakeRequest(op[c].influxql, kwargs[c])
       IN /\ calls' = [calls EXCEPT ![c] = Append(@, request)]
          /\ \/ \E e \in TransportErrors :
                  /\ replies' = [replies EXCEPT ![c] = Append(@, e)]
                  /\ End(c, Raise(e))
                  /\ UNCHANGED resp
             \/ \E r \in Responses(Len(calls[c]) + 1, request) :
                  /\ replies' = [replies EXCEPT ![c] = Append(@, r)]
                  /\ resp' = [resp EXCEPT ![c] = r]
                  /\ IF Inspect(r, kwargs[c].database) = Create
                     THEN /\ pc' = [pc EXCEPT ![c] = "create"]
                          /\ UNCHANGED result
                     ELSE End(c, Inspect(r, kwargs[c].database))
    /\ UNCHANGED <<pure, client, jsonErrorIsRequestException, callers, op, kwargs,
                   db_resp, outcome>>

\* The create-database step and the decision to retry.
CreateDatabase(c) ==
    /\ pc[c] = "create"
    /\ LET request == MakeRequest("IQL_CREATE_DATABASE",
                                  [database |-> kwargs[c].database])
       IN /\ calls' = [calls EXCEPT ![c] = Append(@, request)]
          /\ \E o \in TransportErrors
                        \cup Responses(Len(calls[c]) + 1, request) :
               LET r == CreateDatabaseResult(o)
               IN /\ replies' = [replies EXCEPT ![c] = Append(@, o)]
                  /\ IF r.kind = "raise"
                     THEN /\ End(c, IF Swallowed(r.exc)
                                    THEN Return(resp[c]) ELSE r)
                          /\ UNCHANGED db_resp
                     ELSE /\ db_resp' = [db_resp EXCEPT ![c] = r.value]
                          /\ IF ~Provisioned(r.value)
                             THEN End(c, Return(resp[c]))
                             ELSE /\ pc' = [pc EXCEPT ![c] = "retry"]
                                  /\ UNCHANGED result
    /\ UNCHANGED <<pure, client, jsonErrorIsRequestException, callers, op, kwargs,
                   resp, outcome>>

RetryRequestAgain(c) ==
    /\ pc[c] = "retry"
    /\ LET request == MakeRequest(op[c].influxql, kwargs[c])
       IN /\ calls' = [calls EXCEPT ![c] = Append(@, request)]
          /\ \/ \E e \in TransportErrors :
                  /\ replies' = [replies EXCEPT ![c] = Append(@, e)]
                  /\ End(c, Raise(e))
             \/ \E r \in Responses(Len(calls[c]) + 1, request) :
                  /\ replies' = [replies EXCEPT ![c] = Append(@, r)]
                  /\ IF Inspect(r, kwargs[c].database) = Create
                     THEN /\ pc' = [pc EXCEPT ![c] = "create"]
                          /\ UNCHANGED result
                     ELSE End(c, Inspect(r, kwargs[c].database))
    /\ UNCHANGED <<pure, client, jsonErrorIsRequestException, callers, op, kwargs,
                   resp, db_resp, outcome>>

\* The retry of the request.
RetryRequest(c) ==
    /\ pc[c] = "retry"
    /\ LET request == MakeRequest(op[c].influxql, kwargs[c])
       IN /\ calls' = [calls EXCEPT ![c] = Append(@, request)]
          /\ \/ \E e \in TransportErrors :
                  /\ replies' = [replies EXCEPT ![c] = Append(@, e)]
                  /\ End(c, Raise(e))
             \/ \E r \in Responses(Len(calls[c]) + 1, request) :
                  /\ replies' = [replies EXCEPT ![c] = Append(@, r)]
                  /\ End(c, Return(r))
    /\ UNCHANGED <<pure, client, jsonErrorIsRequestException, callers, op, kwargs,
                   resp, db_resp, outcome>>

\* What write and write_many do with the outcome r of _safe_request.
WriteResult(r) ==
    IF r.kind = "raise" THEN r
    ELSE IF CheckAndRaise(r.value).kind = "raise" THEN CheckAndRaise(r.value)
    ELSE IF r.value.status_code = 204 THEN Return(None)
    ELSE IF r.value.body = Invalid THEN Raise(Exc("JSONDecodeError"))
    ELSE Return(r.value.body)

\* The end of write and write_many, after _safe_request.
WriteCheck(c) ==
    /\ pc[c] = "returned"
    /\ op[c].name \in {"write", "write_many"}
    /\ pc' = [pc EXCEPT ![c] = "done"]
    /\ outcome' = [outcome EXCEPT ![c] = WriteResult(result[c])]
    /\ UNCHANGED <<pure, client, jsonErrorIsRequestException, callers, op, kwargs,
                   calls, replies, resp, db_resp, result>>

\* A direct call of the static method _check_and_raise on a response.
check_and_raise(c) ==
    /\ pc[c] = "idle"
    /\ \E r \in Responses(0, [url |-> UrlJoin(url, "query")]) :
          /\ resp' = [resp EXCEPT ![c] = r]
          /\ outcome' = [outcome EXCEPT ![c] = CheckAndRaise(r)]
    /\ pc' = [pc EXCEPT ![c] = "done"]
    /\ op' = [op EXCEPT ![c] = [name |-> "_check_and_raise",
                                given |-> None, influxql |-> ""]]
    /\ UNCHANGED <<pure, client, jsonErrorIsRequestException, callers, kwargs,
                   calls, replies, db_resp, result>>

Next ==
    \E c \in callers :
        \/ write(c)
        \/ write_many(c)
        \/ safe_request(c)
        \/ select_into(c)
        \/ SelectIntoRequest(c)
        \/ FirstRequest(c)
        \/ CreateDatabase(c)
        \/ RetryRequest(c)
        \/ WriteCheck(c)
        \/ check_and_raise(c)

Spec == Init /\ [][Next]_vars

\* ---- two callers of _safe_request on one client
\* Each caller has its own arguments and local variables; the client's url,
\* timeout and precision are the state they share.
InitConcurrent ==
    /\ url = DefaultUrl
    /\ timeout = 60
    /\ precision = "u"
    /\ jsonErrorIsRequestException \in BOOLEAN
    /\ callers = {1, 2}
    /\ pc = [c \in callers |-> "idle"]
    /\ op = [c \in callers |-> None]
    /\ kwargs = [c \in callers |-> None]
    /\ calls = [c \in callers |-> <<>>]
    /\ replies = [c \in callers |-> <<>>]
    /\ resp = [c \in callers |-> None]
    /\ db_resp = [c \in callers |-> None]
    /\ result = [c \in callers |-> None]
    /\ outcome = [c \in callers |-> None]
    /\ args = None
    /\ ret = None

\* The steps of the callers interleave in any order.
NextConcurrent ==
    \E c \in callers :
        \/ safe_request(c)
        \/ FirstRequest(c)
        \/ CreateDatabase(c)
        \/ RetryRequest(c)

SpecConcurrent == InitConcurrent /\ [][NextConcurrent]_vars

\* --------------------------------------------------------------- properties
IsResponse(o) == "status_code" \in DOMAIN o

\* _safe_request has ended for caller c.
Ended(c) == pc[c] \in {"returned", "done"} /\ op[c].name # "_check_and_raise"

InSafeRequest(c) == pc[c] \in {"request", "create", "retry"} \/ Ended(c)

IsCreateRequest(c, i) ==
    calls[c][i] = MakeRequest("IQL_CREATE_DATABASE",
                              [database |-> kwargs[c].database])

IsFormattedRequest(c, i) ==
    calls[c][i] = MakeRequest(op[c].influxql, kwargs[c])

CreateIssued(c) ==
    \E i \in 1..Len(calls[c]) : calls[c][i].influxql = "IQL_CREATE_DATABASE"

GotFirstResponse(c) == Len(replies[c]) >= 1 /\ IsResponse(replies[c][1])

MissingDatabaseBody ==
    JDict([results |-> JList(<<JDict([error |-> JStr(DatabaseNotFound)])>>)])

\* C1: with a database name, a first response 404 {results:[{error:'database
\* not found'}]} and a create-database response 200 {results:[{statement_id:
\* 0}]}, _safe_request makes exactly three HTTP calls: the request, the CREATE
\* DATABASE request, the same request again, and returns the third response.
C1_RetryScenario ==
    \A c \in callers :
        ( /\ InSafeRequest(c)
          /\ kwargs[c].database # ""
          /\ GotFirstResponse(c)
          /\ replies[c][1].status_code = 404
          /\ replies[c][1].body = MissingDatabaseBody )
        => /\ IsFormattedRequest(c, 1)
           /\ pc[c] # "returned" /\ pc[c] # "done" => Len(calls[c]) < 3
           /\ Ended(c) => Len(calls[c]) >= 2
           /\ Len(calls[c]) >= 2 => IsCreateRequest(c, 2)
           /\ ( /\ Len(replies[c]) >= 2
                /\ IsResponse(replies[c][2])
                /\ replies[c][2].status_code = 200
                /\ replies[c][2].body = CreatedBody )
              => /\ Ended(c) => Len(calls[c]) = 3
                 /\ Len(calls[c]) >= 3 =>
                      /\ Len(calls[c]) = 3
                      /\ calls[c][3] = calls[c][1]
                      /\ Ended(c)
                      /\ IsResponse(replies[c][3]) =>
                            result[c] = Return(replies[c][3])

C1_Witness ==
    \E c \in callers :
        /\ Ended(c)
        /\ Len(replies[c]) = 3
        /\ replies[c][1].status_code = 404
        /\ replies[c][1].body = MissingDatabaseBody
        /\ IsResponse(replies[c][2])
        /\ replies[c][2].status_code = 200
        /\ replies[c][2].body = CreatedBody
        /\ IsResponse(replies[c][3])
        /\ replies[c][3].status_code = 200
        /\ result[c].kind = "return"
        /\ result[c].value.call = 3

\* C2: one _safe_request call issues at most three HTTP requests, at most two
\* of the formatted request and at most one create-database request, and then
\* ends; the response to the re-issued request is returned whatever it is.
C2_AtMostOneRetry ==
    \A c \in callers :
        /\ Len(calls[c]) <= 3
        /\ Cardinality({i \in 1..Len(calls[c]) :
                           calls[c][i].influxql = "IQL_CREATE_DATABASE"}) <= 1
        /\ Cardinality({i \in 1..Len(calls[c]) :
                           calls[c][i].influxql # "IQL_CREATE_DATABASE"}) <= 2
        /\ Len(calls[c]) = 3 =>
              /\ Ended(c)
              /\ IsFormattedRequest(c, 3)
              /\ IsResponse(replies[c][3]) =>
                    result[c] = Return(replies[c][3])

C2_Witness ==
    \E c \in callers :
        /\ Ended(c)
        /\ Len(calls[c]) = 3
        /\ IsResponse(replies[c][3])
        /\ replies[c][3].status_code = 404
        /\ replies[c][3].body = MissingDatabaseBody
        /\ result[c] = Return(replies[c][3])

\* C3: a create-database request is issued only if a non-empty database name
\* was supplied and the first response's status is 200 or 404; when either
\* fails, exactly one HTTP call is made and its response returned unchanged.
C3_CreateOnlyWithDatabaseAndStatus ==
    \A c \in callers :
        /\ (CreateIssued(c) \/ pc[c] \in {"create", "retry"}) =>
              /\ kwargs[c].database # ""
              /\ GotFirstResponse(c)
              /\ replies[c][1].status_code \in {200, 404}
        /\ ( /\ InSafeRequest(c)
             /\ GotFirstResponse(c)
             /\ \/ kwargs[c].database = ""
                \/ replies[c][1].status_code \notin {200, 404} )
           => /\ Ended(c)
              /\ Len(calls[c]) = 1
              /\ result[c] = Return(replies[c][1])

C3_Witness ==
    \E c \in callers :
        /\ Ended(c)
        /\ kwargs[c].database = ""
        /\ GotFirstResponse(c)
        /\ replies[c][1].status_code = 404
        /\ replies[c][1].body = MissingDatabaseBody
        /\ Len(calls[c]) = 1
        /\ result[c] = Return(replies[c][1])

\* The error message the first response carries: the top-level `error`, or
\* else the `error` of the single `results` entry; None when there is none.
ExtractedError(body) ==
    IF body.t # "dict" THEN None
    ELSE IF "error" \in DOMAIN body.v THEN body.v.error
    ELSE IF /\ "results" \in DOMAIN body.v
            /\ body.v.results.t = "list"
            /\ Len(body.v.results.v) = 1
            /\ body.v.results.v[1].t = "dict"
            /\ "error" \in DOMAIN body.v.results.v[1].v
    THEN body.v.results.v[1].v.error
    ELSE None

OnlyFirstResponseReturned(c) ==
    /\ Ended(c)
    /\ Len(calls[c]) = 1
    /\ result[c] = Return(replies[c][1])

\* C4: whenever the error message extracted from the first response (the
\* top-level `error`, or else the `error` of the single `results` entry) does
\* not start with 'database not found', _safe_request returns the original
\* response and issues no create-database request.
C4_OtherErrorsReturned ==
    \A c \in callers :
        ( /\ InSafeRequest(c)
          /\ GotFirstResponse(c)
          /\ ExtractedError(replies[c][1].body).t = "str"
          /\ ~StartsWith(ExtractedError(replies[c][1].body).v,
                         DatabaseNotFound) )
        => OnlyFirstResponseReturned(c)

\* The create-database step failed with a transport error or with the
\* HTTPError of create_database.
CreateFailed(c) ==
    /\ Len(replies[c]) >= 2
    /\ IF IsResponse(replies[c][2])
       THEN /\ CheckAndRaise(replies[c][2]).kind = "raise"
            /\ CheckAndRaise(replies[c][2]).exc.type = "HTTPError"
       ELSE TRUE

\* C5: when the create-database step fails with a request exception (a
\* transport failure or the HTTP error raised for a status of 400 or more),
\* _safe_request raises nothing, returns the original first response and
\* does not re-issue the request: exactly two HTTP calls.
C5_CreateFailureSwallowed ==
    \A c \in callers :
        CreateFailed(c) =>
            /\ Ended(c)
            /\ Len(calls[c]) = 2
            /\ result[c] = Return(replies[c][1])

C5_Witness ==
    \E c \in callers :
        /\ Ended(c)
        /\ Len(replies[c]) = 2
        /\ IsResponse(replies[c][2])
        /\ replies[c][2].status_code = 400
        /\ replies[c][2].body = JDict([error |-> JStr(OtherError)])
        /\ result[c] = Return(replies[c][1])

\* C6: the request is re-issued only after a create-database call whose
\* decoded body equals exactly {results:[{statement_id:0}]}; when
\* create_database returns any other body, _safe_request returns the original
\* first response after exactly two HTTP calls.
C6_RetryOnlyAfterExactSuccess ==
    \A c \in callers :
        /\ (pc[c] = "retry" \/ Len(calls[c]) = 3) =>
              /\ db_resp[c] = CreatedBody
              /\ replies[c][2].body = CreatedBody
        /\ (db_resp[c] # None /\ db_resp[c] # CreatedBody) =>
              /\ Ended(c)
              /\ Len(calls[c]) = 2
              /\ result[c] = Return(replies[c][1])

C6_Witness ==
    \E c \in callers :
        /\ Ended(c)
        /\ db_resp[c] =
              JDict([results |-> JList(<<JDict([statement_id |-> JNum(0)])>>),
                     warning |-> JStr(OtherError)])
        /\ Len(calls[c]) = 2
        /\ result[c] = Return(replies[c][1])

\* C7: when the first response has status 200 or 404 and a database name was
\* supplied, but its body cannot be decoded as JSON or is not a JSON object,
\* _safe_request returns that response: it raises nothing and issues no
\* further HTTP call.
C7_UndecodableBodyReturned ==
    \A c \in callers :
        ( /\ InSafeRequest(c)
          /\ GotFirstResponse(c)
          /\ kwargs[c].database # ""
          /\ replies[c][1].status_code \in {200, 404}
          /\ replies[c][1].body.t # "dict" )
        => OnlyFirstResponseReturned(c)

\* The shapes of C8: a JSON object without top-level `error` whose `results`
\* is absent, or a list that is empty, has two or more entries, or has a
\* single object entry without `error`.
NoSingleError(body) ==
    /\ body.t = "dict"
    /\ "error" \notin DOMAIN body.v
    /\ \/ "results" \notin DOMAIN body.v
       \/ /\ body.v.results.t = "list"
          /\ \/ Len(body.v.results.v) # 1
             \/ /\ body.v.results.v[1].t = "dict"
                /\ "error" \notin DOMAIN body.v.results.v[1].v

\* C8: when the first response's JSON has no top-level `error` and its
\* `results` list is not exactly one entry carrying an `error`, _safe_request
\* returns the original response after exactly one HTTP call.
C8_AmbiguousShapesReturned ==
    \A c \in callers :
        ( /\ InSafeRequest(c)
          /\ GotFirstResponse(c)
          /\ NoSingleError(replies[c][1].body) )
        => OnlyFirstResponseReturned(c)

C8_Witness ==
    \E c \in callers :
        /\ Ended(c)
        /\ kwargs[c].database # ""
        /\ GotFirstResponse(c)
        /\ replies[c][1].status_code = 200
        /\ replies[c][1].body =
              JDict([results |-> JList(
                  <<JDict([error |-> JStr(DatabaseNotFound)]),
                    JDict([error |-> JStr(DatabaseNotFound)])>>)])
        /\ Len(calls[c]) = 1
        /\ result[c] = Return(replies[c][1])

\* C9: write and write_many judge the response _safe_request returned: they
\* raise an HTTP error carrying it exactly when its status is 400 or more,
\* return None when it is 204 and otherwise its decoded JSON; when
\* provisioning was attempted without success that response is the original.
C9_WriteJudgesReturnedResponse ==
    \A c \in callers :
        ( /\ pc[c] = "done"
          /\ op[c].name \in {"write", "write_many"}
          /\ result[c].kind = "return" )
        => LET r == result[c].value
               o == outcome[c]
           IN /\ r.status_code >= 400 <=>
                    /\ o.kind = "raise"
                    /\ o.exc.type = "HTTPError"
                    /\ o.exc.response = r
              /\ r.status_code = 204 => o = Return(None)
              /\ (r.status_code < 400 /\ r.status_code # 204
                    /\ r.body # Invalid) => o = Return(r.body)
              /\ (CreateIssued(c) /\ Len(calls[c]) = 2) => r = replies[c][1]

\* C10: _check_and_raise returns without raising for every response with
\* status below 400, and for every response with status 400 or more raises an
\* HTTP error with message '{status} {message-or-reason} for {url}' carrying
\* the original response.
C10_CheckAndRaise ==
    \A c \in callers :
        (pc[c] = "done" /\ op[c].name = "_check_and_raise") =>
            LET r == resp[c]
                o == outcome[c]
            IN /\ r.status_code < 400 => o = Return(None)
               /\ r.status_code >= 400 =>
                    /\ o.kind = "raise"
                    /\ o.exc.type = "HTTPError"
                    /\ o.exc.response = r
                    /\ Len(o.exc.msg) = 5
                    /\ o.exc.msg[1] = r.status_code
                    /\ o.exc.msg[2] = " "
                    /\ o.exc.msg[4] = " for "
                    /\ o.exc.msg[5] = r.url

\* The last entry of a results list that is a JSON object with a string
\* under 'error', if the body has one.
LastResultError(body) ==
    IF /\ "results" \in DOMAIN body.v
       /\ body.v.results.t = "list"
       /\ Len(body.v.results.v) > 0
    THEN LET last == body.v.results.v[Len(body.v.results.v)]
         IN IF last.t = "dict" /\ "error" \in DOMAIN last.v
                /\ last.v.error.t = "str"
            THEN last.v.error ELSE None
    ELSE None

\* C11: for a failing response with a JSON object body, the message text of
\* the raised HTTP error is the top-level 'error' string if present,
\* otherwise the 'error' of the last entry of the 'results' list, otherwise
\* the decoded reason phrase.
C11_MessageOrder ==
    \A c \in callers :
        ( /\ pc[c] = "done"
          /\ op[c].name = "_check_and_raise"
          /\ resp[c].status_code >= 400
          /\ resp[c].body.t = "dict"
          /\ outcome[c].kind = "raise"
          /\ outcome[c].exc.type = "HTTPError" )
        => LET body == resp[c].body
               text == outcome[c].exc.msg[3]
           IN IF "error" \in DOMAIN body.v
              THEN body.v.error.t = "str" => text = body.v.error.v
              ELSE IF LastResultError(body) # None
                   THEN text = LastResultError(body).v
                   ELSE text = DecodeReason(resp[c].reason)

\* C12: a transport error on the original request or on the re-issued
\* request ends _safe_request by raising that error, with no further call;
\* the only transport error after which _safe_request still returns a
\* response is the one of the CREATE DATABASE call.
C12_TransportErrorsPropagate ==
    \A c \in callers :
        Ended(c) =>
            /\ \A i \in 1..Len(replies[c]) :
                 ( /\ ~IsResponse(replies[c][i])
                   /\ calls[c][i].influxql # "IQL_CREATE_DATABASE" )
                 => /\ result[c] = Raise(replies[c][i])
                    /\ Len(calls[c]) = i
            /\ \A i \in 1..Len(replies[c]) :
                 (~IsResponse(replies[c][i]) /\ result[c].kind = "return")
                 => /\ i = 2
                    /\ IsCreateRequest(c, 2)
                    /\ result[c] = Return(replies[c][1])

\* The re-issued request met a transport error and _safe_request raised it.
C12_Witness ==
    \E c \in callers :
        /\ Ended(c)
        /\ Len(replies[c]) = 3
        /\ IsFormattedRequest(c, 3)
        /\ ~IsResponse(replies[c][3])
        /\ result[c] = Raise(replies[c][3])

\* A result whose first statement has a first series with a non-empty list
\* of columns.
HasColumns(res) ==
    /\ res.t = "dict"
    /\ "results" \in DOMAIN res.v
    /\ res.v.results.t = "list"
    /\ Len(res.v.results.v) > 0
    /\ LET statement == res.v.results.v[1]
       IN /\ statement.t = "dict"
          /\ "series" \in DOMAIN statement.v
          /\ statement.v.series.t = "list"
          /\ Len(statement.v.series.v) > 0
          /\ LET series == statement.v.series.v[1]
             IN /\ series.t = "dict"
                /\ "columns" \in DOMAIN series.v
                /\ series.v.columns.t = "list"
                /\ Len(series.v.columns.v) > 0

\* C13: unpack returns (columns, values) of the first series when it has
\* non-empty columns, and returns ([], []) without raising for every other
\* result, whatever is malformed or absent at any nesting level.
C13_UnpackTotal ==
    (Called("unpack") /\ ret # None) =>
        /\ ret.kind = "return"
        /\ IF HasColumns(args.result)
           THEN LET series == args.result.v.results.v[1].v.series.v[1]
                IN ret.value = <<series.v.columns,
                                 Get(series, "values", JList(<<>>))>>
           ELSE ret.value = Empty

\* Reading text from the left with the backslash as escape character (it
\* takes the next character with it), no comma, equals sign or space is met
\* outside an escape.
RECURSIVE NoUnescaped(_)
NoUnescaped(text) ==
    IF text = <<>> THEN TRUE
    ELSE IF Head(text) = "\\"
         THEN Len(text) = 1 \/ NoUnescaped(Tail(Tail(text)))
    ELSE IF Head(text) \in {",", "=", " "} THEN FALSE
    ELSE NoUnescaped(Tail(text))

EscapeReturned ==
    /\ Called("_escape_tag") \/ Called("_escape_tag_value")
    /\ ret # None

EscapedInput == IF Called("_escape_tag") THEN args.tag ELSE args.value

\* C17 as stated: the escaped form of every string, the space appended
\* after a trailing backslash included, has no unescaped comma, equals sign
\* or space.
C17_NoUnescapedSeparator ==
    EscapeReturned => NoUnescaped(ret.value)

\* C17, amended: the escaped form has no unescaped comma, equals sign or
\* space, except that _escape_tag_value ends the escaped form of a value
\* with a trailing backslash by one space that no backslash escapes.
C17_NoUnescapedButAppendedSpace ==
    EscapeReturned =>
        IF /\ Called("_escape_tag_value")
           /\ EndsWith(GetUnicode(EscapedInput, TRUE).v, "\\")
        THEN /\ EndsWith(ret.value, " ")
             /\ NoUnescaped(SubSeq(ret.value, 1, Len(ret.value) - 1))
             /\ ~NoUnescaped(ret.value)
        ELSE NoUnescaped(ret.value)

\* A tag value with a comma, an equals sign and a trailing backslash was
\* escaped.
C17_Witness ==
    /\ EscapeReturned
    /\ Called("_escape_tag_value")
    /\ EscapedInput = JStr(<<",", "=", "\\">>)
    /\ ret.value = <<"\\", ",", "\\", "=", "\\", "\\", " ">>

\* ---- reading a line protocol text back
\* Reading text from the left with the backslash as escape character, the
\* character at position i is escaped when an odd number of backslashes
\* precedes it directly.
Escaped(text, i) ==
    (CHOOSE k \in 0..(i - 1) :
        /\ \A j \in (i - k)..(i - 1) : text[j] = "\\"
        /\ k = i - 1 \/ text[i - k - 1] # "\\") % 2 = 1

\* The positions of the occurrences of ch that no backslash escapes, with
\* the positions before and after the text, and the k-th of them.
Cuts(text, ch) ==
    {0, Len(text) + 1}
    \cup {i \in DOMAIN text : text[i] = ch /\ ~Escaped(text, i)}

Cut(cuts, k) ==
    CHOOSE i \in cuts : Cardinality({j \in cuts : j < i}) = k - 1

Pieces(text, cuts) ==
    [k \in 1..(Cardinality(cuts) - 1) |->
        SubSeq(text, Cut(cuts, k) + 1, Cut(cuts, k + 1) - 1)]

\* The pieces of text between the occurrences of ch that no backslash
\* escapes.
Split(text, ch) == Pieces(text, Cuts(text, ch))

\* The lines of a text: what precedes each newline.
TextLines(text) ==
    LET pieces == Split(text, "\n")
    IN SubSeq(pieces, 1, Len(pieces) - 1)

\* key and value of an entry key=value.
Entry(text) ==
    LET kv == Split(text, "=")
    IN [k |-> kv[1], v |-> IF Len(kv) > 1 THEN kv[2] ELSE <<>>]

Entries(text) ==
    LET parts == SelectSeq(Split(text, ","), LAMBDA e : e # <<>>)
    IN [i \in DOMAIN parts |-> Entry(parts[i])]

\* measurement[,tag=value...] field=value[,field=value...] [timestamp]
ParseLine(line) ==
    LET segments == Split(line, " ")
        head == Split(segments[1], ",")
    IN [measurement |-> head[1],
        tags |-> Entries(Join(Tail(head), <<",">>)),
        fields |-> IF Len(segments) > 1 THEN Entries(segments[2]) ELSE <<>>,
        rest |-> IF Len(segments) > 2
                 THEN SubSeq(segments, 3, Len(segments)) ELSE <<>>]

\* The outcome of a call of the encoder, once it returned text.
Out == IF Called("make_lines") THEN ret ELSE ret.out

Encoded ==
    /\ Called("make_lines") \/ Called("_make_lines")
         \/ Called("_make_many_lines")
    /\ ret # None
    /\ Out.kind = "return"

\* The i-th line of the text returned.
Line(i) == ParseLine(TextLines(Out.value)[i])

HasEntry(entries, k, v) ==
    \E i \in DOMAIN entries : entries[i].k = k /\ entries[i].v = v

HasEntryKey(entries, k) == \E i \in DOMAIN entries : entries[i].k = k

\* The calls of _make_lines and _make_many_lines that returned text, the
\* number of their points and the fields of the i-th point as the caller
\* gave them.
ValueTagCall ==
    /\ Called("_make_lines") \/ Called("_make_many_lines")
    /\ Encoded

NPoints == IF Called("_make_lines") THEN 1 ELSE Len(args.values)

GivenFields(i) ==
    IF Called("_make_lines") THEN args.fields
    ELSE Zip(args.fields, args.values[i])

\* Every tag not marked VALUE is on line i, unless its escaped key or its
\* escaped value is empty: such a tag is on no line.
SharedOnLine(i) ==
    \A j \in DOMAIN args.tags :
        args.tags[j].v # VALUE =>
            IF /\ EscapeTag(args.tags[j].k) # <<>>
               /\ EscapeTagValue(args.tags[j].v) # <<>>
            THEN HasEntry(Line(i).tags, EscapeTag(args.tags[j].k),
                          EscapeTagValue(args.tags[j].v))
            ELSE ~HasEntry(Line(i).tags, EscapeTag(args.tags[j].k),
                           EscapeTagValue(args.tags[j].v))

\* C14 as stated: for tags holding a: 'VALUE' and a point whose fields hold
\* key a, the line shows a=<the point's value> among the tags, never the
\* literal VALUE, and no a among the fields; tags not marked VALUE are on
\* every line.
C14_ValueTagShown ==
    ValueTagCall =>
        \A i \in 1..NPoints :
            /\ SharedOnLine(i)
            /\ \A j \in DOMAIN args.tags :
                 ( /\ args.tags[j].v = VALUE
                   /\ HasKey(GivenFields(i), args.tags[j].k) )
                 => LET a == args.tags[j].k
                        v == Lookup(GivenFields(i), a)
                    IN /\ HasEntry(Line(i).tags, EscapeTag(a),
                                   EscapeTagValue(v))
                       /\ ~HasEntry(Line(i).tags, EscapeTag(a), VALUE.v)
                       /\ ~HasEntryKey(Line(i).fields, EscapeTag(a))

\* C14, amended: the line shows a=<the point's value> among the tags when
\* the escaped value is not empty and no tag a at all when it is empty (a
\* value None or ''); in both cases it shows neither the literal VALUE nor
\* a among the fields, and tags not marked VALUE are on every line.
C14_ValueTagShownUnlessEmpty ==
    ValueTagCall =>
        \A i \in 1..NPoints :
            /\ SharedOnLine(i)
            /\ \A j \in DOMAIN args.tags :
                 ( /\ args.tags[j].v = VALUE
                   /\ HasKey(GivenFields(i), args.tags[j].k) )
                 => LET a == args.tags[j].k
                        v == Lookup(GivenFields(i), a)
                    IN /\ IF EscapeTagValue(v) # <<>>
                          THEN HasEntry(Line(i).tags, EscapeTag(a),
                                        EscapeTagValue(v))
                          ELSE ~HasEntryKey(Line(i).tags, EscapeTag(a))
                       /\ ~HasEntry(Line(i).tags, EscapeTag(a), VALUE.v)
                       /\ ~HasEntryKey(Line(i).fields, EscapeTag(a))

\* Two rows went through _make_many_lines with a marked VALUE and a shared
\* tag: the first line carries a=1, the second a=s.
C14_Witness ==
    /\ Called("_make_many_lines")
    /\ Encoded
    /\ args.tags = <<Item(Tag1, TestTag), Item(Key("a"), VALUE)>>
    /\ Len(args.values) = 2
    /\ args.values[1][1] = PyInt(1)
    /\ args.values[2][1] = JStr(<<"s">>)
    /\ HasEntry(Line(1).tags, <<"a">>, <<"1">>)
    /\ HasEntry(Line(2).tags, <<"a">>, <<"s">>)
    /\ HasEntry(Line(2).tags, Tag1.v, TestTag.v)

\* The keys of a sequence of entries ascend strictly.
Ascending(entries) ==
    \A i \in 1..(Len(entries) - 1) : LessText(entries[i].k, entries[i + 1].k)

\* C15: in every line of the text make_lines returns, the tags are in
\* ascending order of their keys and so are the fields, whatever the order
\* of the mappings.
C15_SortedByKey ==
    Encoded =>
        \A i \in DOMAIN TextLines(Out.value) :
            Ascending(Line(i).tags) /\ Ascending(Line(i).fields)

\* A point whose tags were built as b, a and whose fields as g, f came out
\* with a before b and f before g.
C15_Witness ==
    /\ Called("make_lines")
    /\ Encoded
    /\ Len(args.data.points) = 1
    /\ args.data.tags = <<>>
    /\ "tags" \in DOMAIN args.data.points[1]
    /\ args.data.points[1].tags =
           <<Item(Key("b"), JStr(<<"y">>)), Item(Key("a"), JStr(<<"z">>))>>
    /\ args.data.points[1].fields =
           <<Item(Key("g"), PyInt(2)), Item(Key("f"), PyInt(1))>>
    /\ Line(1).tags = <<[k |-> <<"a">>, v |-> <<"z">>],
                        [k |-> <<"b">>, v |-> <<"y">>]>>
    /\ Line(1).fields = <<[k |-> <<"f">>, v |-> <<"1">>],
                          [k |-> <<"g">>, v |-> <<"2">>]>>

\* No tag value of the batch holds a raw newline, so that line i is the
\* line of point i.
NewlineFree(data) ==
    \A i \in DOMAIN data.points :
        \A j \in DOMAIN OrEmpty(data.points[i], "tags") :
            \A n \in DOMAIN data.points[i].tags[j].v.v :
                data.points[i].tags[j].v.v[n] # "\n"

Newlines(text) == Cardinality({i \in DOMAIN text : text[i] = "\n"})

\* C18: the text make_lines returns for N >= 1 points holds exactly N
\* newline characters and ends with one; for no point it is a lone newline.
C18_OneLinePerPoint ==
    (Called("make_lines") /\ Encoded) =>
        LET n == Len(args.data.points)
        IN /\ n = 0 => Out.value = <<"\n">>
           /\ n >= 1 => /\ Newlines(Out.value) = n
                        /\ Out.value[Len(Out.value)] = "\n"

\* The call of the example: measurement 'm', fields {field1: 1.0, field2:
\* 2}, tags {tag1: 'test_tag'}, time 1521241703.097608192, precision
\* microsecond.
ExampleCall ==
    /\ Called("_make_lines")
    /\ args.measurement = Measurement
    /\ args.fields = <<Item(Field1, PyFloat(<<1>>, 0)), Item(Field2, PyInt(2))>>
    /\ args.tags = <<Item(Tag1, TestTag)>>
    /\ args.time = TestTime
    /\ args.precision = Microsecond
    /\ ret # None

\* C19 as stated: the example yields the line with the timestamp
\* 1521241703097608192.
C19_ExampleLine ==
    ExampleCall =>
        Out = Return(
        <<"m", ",", "t", "a", "g", "1", "=", "t", "e", "s", "t", "_", "t",
          "a", "g", " ", "f", "i", "e", "l", "d", "1", "=", "1", ".", "0",
          ",", "f", "i", "e", "l", "d", "2", "=", "2", " ", "1", "5", "2",
          "1", "2", "4", "1", "7", "0", "3", "0", "9", "7", "6", "0", "8",
          "1", "9", "2", "\n">>)

\* C19, amended: with precision microsecond the example yields the line
\* with the timestamp 1521241703097608, the integer part of the time
\* multiplied by 10^6.
C19_ExampleLineMicroseconds ==
    ExampleCall =>
        Out = Return(
        <<"m", ",", "t", "a", "g", "1", "=", "t", "e", "s", "t", "_", "t",
          "a", "g", " ", "f", "i", "e", "l", "d", "1", "=", "1", ".", "0",
          ",", "f", "i", "e", "l", "d", "2", "=", "2", " ", "1", "5", "2",
          "1", "2", "4", "1", "7", "0", "3", "0", "9", "7", "6", "0", "8",
          "\n">>)

C19_Witness ==
    /\ ExampleCall
    /\ Out.kind = "return"
    /\ Line(1).rest = <<StrLimbs(<<1521, 2417, 309, 7608>>)>>

\* The columns of row i of a call of _make_many_lines, and the column of
\* the time field in it, if the row has it with a value other than None.
RowColumns(i) ==
    {n \in DOMAIN args.fields : n <= Len(args.values[i])}

TimeColumns(i) ==
    {n \in RowColumns(i) :
        /\ args.time_field # None
        /\ args.fields[n] = args.time_field
        /\ args.values[i][n] # None}

\* C20: with a time_field, a row that has the field with a value other than
\* None (0 included) gives a line with that value as timestamp and without
\* the field; any other row gives a line without timestamp.  Without a
\* time_field every column stays a field and no line has a timestamp.
C20_TimeField ==
    (Called("_make_many_lines") /\ Encoded) =>
        \A i \in DOMAIN args.values :
            /\ \A n \in TimeColumns(i) :
                 /\ Line(i).rest = <<StrOfInt(args.values[i][n])>>
                 /\ ~HasEntryKey(Line(i).fields, EscapeTag(args.time_field))
            /\ TimeColumns(i) = {} => Line(i).rest = <<>>
            /\ args.time_field = None =>
                 \A n \in RowColumns(i) :
                    ( /\ ~HasKey(args.tags, args.fields[n])
                      /\ EscapeValue(args.values[i][n]) # <<>> )
                    => HasEntry(Line(i).fields, EscapeTag(args.fields[n]),
                                EscapeValue(args.values[i][n]))

\* ---- integer timestamps
\* The calls of _make_lines given an int as time whose value tags are all
\* among the fields.
IntTimeCall ==
    /\ Called("_make_lines")
    /\ ret # None
    /\ args.time.t = "int"
    /\ ret.out # Raise(Exc("KeyError"))

\* The number of decimal digits an int must exceed to reach the bound of
\* the precision: 18, 15 and 12 for 'u', 'ms' and 's', none otherwise.
BoundDigits ==
    CASE args.precision = JStr(<<"u">>) -> 18
      [] args.precision = JStr(<<"m", "s">>) -> 15
      [] args.precision = JStr(<<"s">>) -> 12
      [] OTHER -> 0

NotBelowBound ==
    /\ BoundDigits > 0
    /\ ~args.time.neg
    /\ Len(StrLimbs(args.time.d)) > BoundDigits

\* C21: an int timestamp is written as it is under every precision; with
\* precision 'u', 'ms' or 's' an int that is not below 1e18, 1e15 or 1e12
\* makes the encoding fail with AssertionError and no text, and under any
\* other precision every int is written.
C21_IntTimestampUnchanged ==
    IntTimeCall =>
        IF NotBelowBound THEN ret.out = Raise(Exc("AssertionError"))
        ELSE /\ Encoded
             /\ Line(1).rest = <<StrInt(args.time)>>

\* An int of 1e12 under precision 's' failed the assertion.
C21_Witness ==
    /\ IntTimeCall
    /\ args.precision = JStr(<<"s">>)
    /\ args.time.d = <<1, 0, 0, 0>>
    /\ ret.out = Raise(Exc("AssertionError"))

\* ---- float timestamps without a precision
\* The calls of _make_lines given a float as time and no precision, whose
\* value tags are all among the fields.
FloatTimeCall ==
    /\ Called("_make_lines")
    /\ ret # None
    /\ args.time.t = "float"
    /\ args.precision = None
    /\ ret.out # Raise(Exc("KeyError"))

\* int(t * 1e9) as the interpreter prints it, for the floats
\* 1521241703.097608192 and 1.5.
Nanoseconds ==
    IF args.time = TestTime
    THEN <<"1", "5", "2", "1", "2", "4", "1", "7", "0", "3", "0", "9", "7",
           "6", "0", "8", "1", "9", "2">>
    ELSE <<"1", "5", "0", "0", "0", "0", "0", "0", "0", "0">>

\* C25: with no precision a float time t in seconds is written as the
\* integer part of t * 10^9: 1521241703.097608192 as 1521241703097608192.
C25_FloatNanoseconds ==
    FloatTimeCall =>
        /\ Encoded
        /\ Line(1).rest = <<Nanoseconds>>

\* The float 1521241703.097608192 was written with no precision.
C25_Witness ==
    /\ FloatTimeCall
    /\ args.time = TestTime
    /\ Encoded
    /\ Len(Line(1).rest[1]) = 19

\* ---- field values
\* What one character of a string becomes inside the quotes.
QuotedChar(ch) ==
    CASE ch = "\\" -> <<"\\", "\\">>
      [] ch = "\"" -> <<"\\", "\"">>
      [] ch = "\n" -> <<"\\", "n">>
      [] OTHER -> <<ch>>

\* str(n) of the ints given.
IntDigits(n) ==
    CASE n = PyInt(0) -> <<"0">>
      [] n = PyInt(2) -> <<"2">>
      [] n = PyInt(-12) -> <<"-", "1", "2">>
      [] n = PyInt(10005) -> <<"1", "0", "0", "0", "5">>

ValueReturned == Called("_escape_value") /\ ret # None

\* C27: a non-empty string is written between double quotes with every
\* backslash doubled, every double quote preceded by a backslash and every
\* newline written as backslash and n; a bool is written as True or False,
\* never as an integer; an int is written as its decimal digits with no
\* suffix i.
C27_FieldValueByType ==
    ValueReturned =>
        CASE args.value.t = "str" /\ args.value.v # <<>> ->
                ret.value =
                    <<"\"">>
                    \o Join([i \in DOMAIN args.value.v |->
                                QuotedChar(args.value.v[i])], <<>>)
                    \o <<"\"">>
          [] args.value.t = "bool" ->
                ret.value = IF args.value.v THEN <<"T", "r", "u", "e">>
                            ELSE <<"F", "a", "l", "s", "e">>
          [] args.value.t = "int" -> ret.value = IntDigits(args.value)
          [] OTHER -> TRUE

\* A string with a backslash before a double quote and a newline was
\* encoded.
C27_Witness ==
    /\ ValueReturned
    /\ args.value = JStr(<<"\\", "\"", "\n">>)
    /\ Len(ret.value) = 8

\* ---- omitted tags and fields
\* The tags of the point of a call of _make_lines, a tag marked VALUE with
\* the value of the field of its name, and the fields left to the point.
PointTagItems ==
    [i \in DOMAIN args.tags |->
        IF args.tags[i].v = VALUE
        THEN Item(args.tags[i].k, Lookup(args.fields, args.tags[i].k))
        ELSE args.tags[i]]

PointFieldItems ==
    SelectSeq(args.fields,
              LAMBDA it : ~HasEntry(args.tags, it.k, VALUE))

\* A key or value that is written as the empty text: None or ''.
Blank(x) == x = None \/ x = JStr(<<>>)

Kept(items) ==
    {i \in DOMAIN items : ~Blank(items[i].k) /\ ~Blank(items[i].v)}

\* The text before the fields of the line returned, split at its commas.
HeadPieces ==
    Split(Split(TextLines(Out.value)[1], " ")[1], ",")

\* C28: a tag whose key or value is written as the empty text is left out
\* of the line and so is such a field; every other tag and field of the
\* point is on the line, and no comma is left behind where a tag was left
\* out.
C28_EmptyOmitted ==
    (Called("_make_lines") /\ Encoded) =>
        /\ {Line(1).tags[i] : i \in DOMAIN Line(1).tags}
             = {[k |-> Str(PointTagItems[i].k), v |-> Str(PointTagItems[i].v)] :
                   i \in Kept(PointTagItems)}
        /\ {Line(1).fields[i] : i \in DOMAIN Line(1).fields}
             = {[k |-> Str(PointFieldItems[i].k),
                 v |-> EscapeValue(PointFieldItems[i].v)] :
                   i \in Kept(PointFieldItems)}
        /\ Len(HeadPieces) = 1 + Cardinality(Kept(PointTagItems))
        /\ \A n \in DOMAIN HeadPieces : HeadPieces[n] # <<>>

\* Of the tags t = '', tag1 = 'test_tag', '' = 'x' and n = None only tag1
\* was written, and of the fields '' = 1, n = None, e = '' and f = 2 only f.
C28_Witness ==
    /\ Called("_make_lines")
    /\ Encoded
    /\ Len(args.tags) = 4
    /\ Len(args.fields) = 4
    /\ Cardinality(Kept(PointTagItems)) = 1
    /\ Len(Line(1).tags) = 1
    /\ Len(Line(1).fields) = 1

\* ---- the caller's mappings after _make_lines
SingleReturned == Called("_make_lines") /\ ret # None

\* The keys the caller marked VALUE.
MarkedKeys == {args.tags[j].k : j \in {i \in DOMAIN args.tags :
                                            args.tags[i].v = VALUE}}

\* A second call with the mappings the first call left, at the same time.
SecondCall ==
    MakeLinesSingle(args.measurement, ret.after.fields, ret.after.tags,
                    IF args.time = None THEN CHOOSE now \in Clock : TRUE
                    ELSE args.time,
                    args.precision)

\* After the call the caller's tags hold no VALUE entry and are the other
\* tags in their order, and a second call with the same mappings writes no
\* marked key as a tag.
TagsInPlace ==
    /\ \A i \in DOMAIN ret.after.tags : ret.after.tags[i].v # VALUE
    /\ ret.after.tags
         = SelectSeq(args.tags, LAMBDA item : item.k \notin MarkedKeys)
    /\ SecondCall.out.kind = "return" =>
          \A k \in MarkedKeys :
              ~HasEntryKey(ParseLine(TextLines(SecondCall.out.value)[1]).tags,
                           Str(k))

ManyReturned == Called("_make_many_lines") /\ ret # None

TagsFormatted == Called("_format_tags") /\ ret # None

\* The condition of the i-th tag given.
Condition(i) ==
    <<"\"">> \o args.tags[i].k.v \o <<"\"", "=">>
    \o (IF args.tags[i].v.t = "list"
        THEN <<"[">>
             \o Join([j \in DOMAIN args.tags[i].v.items |->
                         <<"'">> \o Str(args.tags[i].v.items[j]) \o <<"'">>],
                     <<",">>)
             \o <<"]">>
        ELSE <<"'">> \o Str(args.tags[i].v) \o <<"'">>)

\* C29: _format_tags returns the conditions "key"='value' of the tags, a
\* list or tuple written as the bracketed comma-joined list of its quoted
\* items, in ascending order of the keys and joined by ' AND '; the empty
\* mapping gives the empty text.
C29_FormatTags ==
    TagsFormatted =>
        /\ args.tags = <<>> => ret.value = <<>>
        /\ \E order \in [DOMAIN args.tags -> DOMAIN args.tags] :
              /\ \A i, j \in DOMAIN order : order[i] = order[j] => i = j
              /\ \A i, j \in DOMAIN order :
                    i < j => LessText(args.tags[order[i]].k.v,
                                      args.tags[order[j]].k.v)
              /\ ret.value = Join([i \in DOMAIN order |-> Condition(order[i])],
                                  <<" ", "A", "N", "D", " ">>)
        /\ args.tags = <<Item(JStr(<<"t", "a", "g", "2">>), Value1),
                         Item(Tag1, PyList(<<Value1,
                                             JStr(<<"v", "a", "l", "u", "e",
                                                    "2">>)>>))>>
           => ret.value =
                <<"\"", "t", "a", "g", "1", "\"", "=", "[", "'", "v", "a", "l",
                  "u", "e", "1", "'", ",", "'", "v", "a", "l", "u", "e", "2",
                  "'", "]", " ", "A", "N", "D", " ", "\"", "t", "a", "g", "2",
                  "\"", "=", "'", "v", "a", "l", "u", "e", "1", "'">>

\* The tags tag2 = 'value1' and tag1 = ['value1', 'value2'], given in that
\* order, were formatted.
C29_Witness ==
    /\ TagsFormatted
    /\ Len(args.tags) = 2
    /\ args.tags[1].k = JStr(<<"t", "a", "g", "2">>)
    /\ args.tags[2] = Item(Tag1, PyList(<<Value1,
                                          JStr(<<"v", "a", "l", "u", "e",
                                                 "2">>)>>))
    /\ Len(ret.value) = 46

\* ---- timestamps that are no number and no datetime
\* Caller c ran write with a time that is a str, or write_many with a row
\* whose time field holds a str.
StrTimeGiven(c) ==
    /\ pc[c] # "idle"
    /\ IF op[c].name = "write" THEN op[c].given.time.t = "str"
       ELSE /\ op[c].name = "write_many"
            /\ \E i \in DOMAIN op[c].given.values :
                  op[c].given.values[i][2].t = "str"

\* C22: a time that is neither an int nor a float nor a datetime, a str for
\* one, makes the encoding raise ValueError, and write and write_many then
\* end with that error before any request is made.
C22_InvalidTimeBeforeRequest ==
    \A c \in callers :
        StrTimeGiven(c) =>
            /\ pc[c] = "failed"
            /\ outcome[c] = Raise(Exc("ValueError"))
            /\ calls[c] = <<>>

\* ---- select_into
\* Caller c called select_into; the number of its positional arguments.
SelectIntoCalled(c) == pc[c] # "idle" /\ op[c].name = "select_into"

Positional(c) == Len(op[c].given.args)

\* C24: select_into with fewer than two or more than three positional
\* arguments raises TypeError and makes no request; with two arguments the
\* database of the request is '' and with three it is the first argument.
C24_SelectIntoArguments ==
    \A c \in callers :
        SelectIntoCalled(c) =>
            IF Positional(c) \in {2, 3}
            THEN /\ pc[c] # "failed"
                 /\ kwargs[c].target = op[c].given.args[Positional(c) - 1]
                 /\ kwargs[c].source = op[c].given.args[Positional(c)]
                 /\ \A i \in DOMAIN calls[c] :
                       calls[c][i].params.db
                         = IF Positional(c) = 2 THEN ""
                           ELSE op[c].given.args[1]
            ELSE /\ pc[c] = "failed"
                 /\ outcome[c] = Raise(Exc("TypeError"))
                 /\ calls[c] = <<>>

\* select_into('t', 'db') made its request with the database '' and
\* returned the count of the row answered.
C24_Witness ==
    \E c \in callers :
        /\ SelectIntoCalled(c)
        /\ pc[c] = "selected"
        /\ op[c].given.args = <<"t", "db">>
        /\ Len(calls[c]) = 1
        /\ calls[c][1].params.db = ""
        /\ outcome[c] = Return(JNum(7))

\* ---- concurrent callers
\* The calls of caller c are its request, then CREATE DATABASE, then its
\* request again, each answered before the next is made.
CallsInOrder(c) ==
    /\ Len(calls[c]) <= 3
    /\ Len(replies[c]) = Len(calls[c])
    /\ \A i \in DOMAIN calls[c] :
          calls[c][i].influxql = IF i = 2 THEN "IQL_CREATE_DATABASE"
                                 ELSE op[c].influxql

\* C23: with several callers of _safe_request on one client, in every
\* interleaving each caller makes at most three calls, in the order request,
\* create database, request; a caller that returns a response returns the
\* answer to its own first or third call; and the client's url, timeout and
\* precision stay as they were.
C23_ConcurrentCallers ==
    /\ \A c \in callers :
          /\ CallsInOrder(c)
          /\ (pc[c] = "returned" /\ result[c].kind = "return") =>
                \E i \in DOMAIN replies[c] \ {2} :
                    result[c].value = replies[c][i]
    /\ url = DefaultUrl
    /\ timeout = 60
    /\ precision = "u"

\* Both callers have returned: one the answer to its retry after the other
\* had returned the answer to its only call.
C23_Witness ==
    /\ Cardinality(callers) = 2
    /\ \A c \in callers : pc[c] = "returned" /\ result[c].kind = "return"
    /\ \E c, d \in callers :
          /\ Len(calls[c]) = 3
          /\ Len(calls[d]) = 1
          /\ result[c].value = replies[c][3]
          /\ result[c].value # result[d].value
====
